---- MODULE Spec2Model ----
\* The lifecycle protocol of the external resource: resource.go drives one of
\* four verbs (create, read, update, delete); each opens an interchange
\* directory, runs one external command, reads files back, and closes the
\* directory (program.go).  The external command and the filesystem are the
\* environment: the command's effect on the files, its exit status and the
\* failure of any filesystem call are chosen nondeterministically.
EXTENDS Integers, Sequences, FiniteSets, TLC

\* ------------------------------------------------------------------ bounds
\* temporary directory names available to ioutil.TempDir
MaxTmpDirs == 2
\* filesystem / process faults injected into one invocation
MaxFaults == 1
\* iteration orders of the p.files map tried by openDir (rotations of the
\* declaration order; Go leaves the order of a map range unspecified)
NumOrders == 2

\* --------------------------------------------------------- file modes
Mode0400 == 256
Mode0600 == 384
Mode0200 == 128

OwnerRead(mode) == (mode \div 256) % 2 = 1
OwnerWrite(mode) == (mode \div 128) % 2 = 1

\* --------------------------------------------------------- values
Input == "in"
InputSensitive == "in-secret"
ProviderInput == "provider-in"
\* values the configuration gives the state attribute on create ("": not
\* configured) and on a later change
CreateStates == {"", "old"}
UpdateStates == {"new"}
PinnedDir == "program_tmpdir"
TmpDir(i) == "tmp" \o ToString(i)
TmpDirs == {TmpDir(i) : i \in 1..MaxTmpDirs}

Verbs == {"create", "read", "update", "delete"}
\* a read-back that leaves output_sensitive out
AttributesWithoutSensitive == <<"state", "output">>
\* the attributes storeAttributes is called with (resource.go:126, 152, 179)
Attributes == <<"state", "output", "output_sensitive">>

NoFile == [exists |-> FALSE, content |-> "", mode |-> 0]
File(content, mode) == [exists |-> TRUE, content |-> content, mode |-> mode]

AllFiles == {"provider_input", "input", "input_sensitive", "output",
             "output_sensitive", "state", "old_state", "id",
             "stdall", "stdout", "stderr"}
EmptyDisk == [f \in AllFiles |-> NoFile]

Diag(sev, tag) == [sev |-> sev, tag |-> tag]
HasError(ds) == \E i \in 1..Len(ds) : ds[i].sev = "Error"

\* what the external command does to one file; the four files it may change
\* exist when it starts (openDir created them), and a write keeps a file's mode
Keep == [kind |-> "keep", val |-> ""]
Remove == [kind |-> "remove", val |-> ""]
Write(v) == [kind |-> "write", val |-> v]
ApplyOp(file, op) ==
    CASE op.kind = "keep" -> file
      [] op.kind = "remove" -> NoFile
      [] OTHER -> [file EXCEPT !.content = op.val]

\* what the command may do to the id file
IdOps == {Keep, Remove, Write(""), Write("abc")}
\* what it may do to state, output and output_sensitive
AttrOps == {<<Keep, Keep, Keep>>,
            <<Write("new"), Write("out"), Write("out-secret")>>,
            <<Write("new"), Keep, Keep>>,
            <<Keep, Write("out"), Write("out-secret")>>,
            <<Remove, Keep, Keep>>,
            <<Keep, Remove, Keep>>,
            <<Keep, Keep, Remove>>}
\* the behaviours of the external command: file operations and exit status
Behaviours ==
    [id : IdOps, attrs : {<<Keep, Keep, Keep>>,
                          <<Write("new"), Write("out"), Write("out-secret")>>},
     status : {0}]
    \cup [id : {Write("abc")}, attrs : AttrOps, status : {0}]
    \cup [id : {Remove}, attrs : {<<Keep, Remove, Keep>>}, status : {0}]
    \cup [id : {Keep, Write("abc")},
          attrs : {<<Keep, Keep, Keep>>,
                   <<Write("new"), Write("out"), Write("out-secret")>>},
          status : {1}]

VARIABLES
    cfg,        \* the resource's configuration (schema arguments)
    data,       \* schema.ResourceData: id, state, output, output_sensitive
    verb,       \* the verb being served
    pc,         \* "idle", "running" (the handler waits for the command), "done"
    p,          \* the program struct
    diags,      \* diagnostics accumulated by the handler
    dirs,       \* directories that exist on disk
    disk,       \* files of the interchange directory in use
    faults,     \* faults that occurred in this invocation so far
    exit,       \* exit status of the command (-1: none)
    pre,        \* data when the handler was entered
    trace,      \* steps of this invocation, in order
    launched,   \* commands started in this invocation, with their environment
    atLaunch,   \* files when the command was started
    atExit,     \* files when the command exited
    opened,     \* the directory openDir made or took over in this invocation
    store,      \* what the command keeps outside the interchange directory
    par,        \* invocations that run side by side, and their directories
    emitted,    \* the diagnostics each step of this invocation produced, in order
    printed,    \* what the command wrote to its standard output and error
    report,     \* what the error diagnostic of executeCommand carries
    stored,     \* the attributes the host engine holds between invocations
    ctx,        \* the context of the invocation: "live" or "cancelled"
    q           \* the invocation of the stateless protocol (data source, ephemeral)

vars == <<cfg, data, verb, pc, p, diags, dirs, disk, faults, exit, pre, trace,
          launched, atLaunch, atExit, opened, store, par, emitted, printed, report,
          stored, ctx, q>>

\* the variables of the single invocation the host engine runs at a time
seq == <<cfg, data, verb, pc, p, diags, dirs, disk, faults, exit, pre, trace,
         launched, atLaunch, atExit, opened, store, emitted, printed, report,
         stored, ctx>>

\* the configurations explored: every combination of pinning, retention and
\* program_create with combined capture (the schema default), and split capture
\* with the default retention
\* (commands holds program_create, program_read, program_update and
\* program_delete: a program on the PATH and one argument)
CommandKeys == {"program_create", "program_read", "program_update", "program_delete"}
Commands(vector) == [k \in CommandKeys |-> vector]
PlainCommand == <<"prog", "arg1">>
Configs == {c \in [program_tmpdir : BOOLEAN,
                   program_tmpdir_keep : BOOLEAN,
                   program_tmpdir_keep_on_error : BOOLEAN,
                   program_output_combined : BOOLEAN,
                   program_create : BOOLEAN,
                   commands : {Commands(PlainCommand)}] :
              ~c.program_output_combined =>
                 (~c.program_tmpdir_keep /\ ~c.program_tmpdir_keep_on_error)}

\* what a command wrote to its two streams
NoOutput == [stdout |-> "", stderr |-> ""]
\* the content of the error diagnostic of executeCommand: the command line
\* (as the key of its attribute), the error and the captured output
NoReport == [command |-> "", error |-> "", output |-> ""]

\* invocations the host engine runs in parallel for different resources
NumProcs == 2
Procs == 1..NumProcs
\* a directory: whether it exists, and whose writes its files hold
NoDir == [exists |-> FALSE, writers |-> {}]
NoInvocations ==
    [fs |-> [n \in TmpDirs \cup {PinnedDir} |-> NoDir],
     inv |-> [i \in Procs |-> [pc |-> "idle", dir |-> "", seen |-> {}]]]

\* the stateless protocol at rest: no handler is running
NoQuery == [pc |-> "idle", kind |-> "none", program |-> <<>>,
            query |-> [null |-> TRUE, elems |-> <<>>], argv |-> <<>>,
            stdin |-> [sent |-> FALSE, doc |-> [t |-> "null", n |-> <<0, 0>>, s |-> "", c |-> <<>>]],
            spawned |-> 0, diags |-> <<>>,
            result |-> [k |-> "unset", n |-> <<0, 0>>, s |-> "", c |-> <<>>], id |-> "",
            out |-> [raw |-> "none", doc |-> [t |-> "null", n |-> <<0, 0>>, s |-> "", c |-> <<>>]],
            err |-> "", status |-> -1, ctx |-> "live"]

\* the attributes of a resource that does not exist: its id is empty
NoResource == [id |-> "", state |-> "", output |-> "", output_sensitive |-> ""]

NoProgram == [currentTmpDir |-> "", names |-> <<>>, files |-> [f \in AllFiles |-> ""],
              version |-> 0]

\* no resource, no invocation, an empty disk
Idle ==
    /\ data = NoResource
    /\ verb = "none"
    /\ pc = "idle"
    /\ p = NoProgram
    /\ diags = <<>>
    /\ dirs = {}
    /\ disk = EmptyDisk
    /\ faults = 0
    /\ exit = -1
    /\ pre = data
    /\ trace = <<>>
    /\ launched = <<>>
    /\ atLaunch = EmptyDisk
    /\ atExit = EmptyDisk
    /\ opened = ""
    /\ store = ""
    /\ par = NoInvocations
    /\ emitted = <<>>
    /\ printed = NoOutput
    /\ report = NoReport
    /\ stored = data
    /\ ctx = "live"
    /\ q = NoQuery

Init == cfg \in Configs /\ Idle

\* ------------------------------------------------------------ faults
\* read-back calls that can be made to fail: reading id and state (mode 0600),
\* and the three calls readFile makes for output (mode 0200)
ReadPoints == {"read:id", "read:state", "chmod:output", "read:output",
               "restore:output"}

\* ------------------------------------------------------------ Program()
\* names of p.files in declaration order (program.go:57-86)
FileNames(combined) ==
    <<"provider_input", "input", "input_sensitive", "output", "output_sensitive",
      "state", "old_state", "id">>
    \o (IF combined THEN <<"stdall">> ELSE <<"stdout", "stderr">>)

\* names of p.files of the constructor runProgram uses (program.go:487-495)
FileNamesRun == <<"input", "input_sensitive", "output", "output_sensitive",
                  "state", "old_state", "id">>

\* permissions that give every file mode 0600
PermAllReadWrite(name) == Mode0600

\* p.perms with the 0400 default of openDir
Perm(name) ==
    CASE name \in {"output", "output_sensitive"} -> Mode0200
      [] name \in {"state", "id", "stdout", "stderr", "stdall"} -> Mode0600
      [] OTHER -> Mode0400

\* a seeding that writes the stored state into the state file
SeedsFromOldState(d, oldState, newState) ==
    [f \in AllFiles |->
        CASE f = "provider_input" -> ProviderInput
          [] f = "input" -> Input
          [] f = "input_sensitive" -> InputSensitive
          [] f = "output" -> d.output
          [] f = "output_sensitive" -> d.output_sensitive
          [] f = "state" -> oldState
          [] f = "old_state" -> oldState
          [] f = "id" -> d.id
          [] OTHER -> ""]

\* seeds that start every invocation from an empty id
SeedsWithoutId(d, oldState, newState) ==
    [f \in AllFiles |->
        CASE f = "provider_input" -> ProviderInput
          [] f = "input" -> Input
          [] f = "input_sensitive" -> InputSensitive
          [] f = "output" -> d.output
          [] f = "output_sensitive" -> d.output_sensitive
          [] f = "state" -> newState
          [] f = "old_state" -> oldState
          [] OTHER -> ""]

\* p.files: content seeded per file
Seeds(d, oldState, newState) ==
    [f \in AllFiles |->
        CASE f = "provider_input" -> ProviderInput
          [] f = "input" -> Input
          [] f = "input_sensitive" -> InputSensitive
          [] f = "output" -> d.output
          [] f = "output_sensitive" -> d.output_sensitive
          [] f = "state" -> newState
          [] f = "old_state" -> oldState
          [] f = "id" -> d.id
          [] OTHER -> ""]

Program(c, d, oldState, newState) ==
    [currentTmpDir |-> "",
     names |-> FileNames(c.program_output_combined),
     files |-> Seeds(d, oldState, newState),
     version |-> 1]

ProgramRunProgram(c, d, oldState, newState) ==
    [currentTmpDir |-> "",
     names |-> FileNamesRun,
     files |-> Seeds(d, oldState, newState),
     version |-> 2]

Range(s) == {s[i] : i \in 1..Len(s)}

\* ------------------------------------------------------------ steps
\* The steps of a handler are operators on the handler's state st, with c the
\* configuration and fault the call that fails in the step (if any); a call
\* can fail while the invocation's fault budget lasts.
Log(st, name) == [st EXCEPT !.trace = Append(@, name)]
Budget(st) == MaxFaults - st.faults
NoFault == [at |-> "none", k |-> 0, r |-> 0]
Fault(at) == [at |-> at, k |-> 0, r |-> 0]

\* a createFile that makes the file and writes nothing into it
createFileWithoutContent(d, name, content, perm, fault) ==
    IF fault \/ (d[name].exists /\ ~OwnerWrite(d[name].mode))
    THEN [disk |-> d, err |-> TRUE]
    ELSE [disk |-> [d EXCEPT ![name] =
                      IF d[name].exists THEN [d[name] EXCEPT !.content = ""]
                      ELSE File("", perm)],
          err |-> FALSE]

\* createFile (program.go:399-411): ioutil.WriteFile truncates an existing
\* file and keeps its mode; it cannot open a file the owner may not write
createFile(d, name, content, perm, fault) ==
    IF fault \/ (d[name].exists /\ ~OwnerWrite(d[name].mode))
    THEN [disk |-> d, err |-> TRUE]
    ELSE [disk |-> [d EXCEPT ![name] =
                      IF d[name].exists THEN [d[name] EXCEPT !.content = content]
                      ELSE File(content, perm)],
          err |-> FALSE]

\* what os.OpenFile(O_CREATE|O_WRONLY) followed by WriteString leaves in a
\* file that already held old: the new bytes over the start of the old ones
Overwrite(old, new) ==
    IF Len(new) >= Len(old) THEN new
    ELSE new \o SubSeq(old, Len(new) + 1, Len(old))

\* createFile of runProgram's program (program.go:743-774): no truncation
createFileRun(d, name, content, perm, fault) ==
    IF fault \/ (d[name].exists /\ ~OwnerWrite(d[name].mode))
    THEN [disk |-> d, err |-> TRUE]
    ELSE [disk |-> [d EXCEPT ![name] =
                      IF d[name].exists
                      THEN [d[name] EXCEPT !.content = Overwrite(d[name].content, content)]
                      ELSE File(content, perm)],
          err |-> FALSE]

Rotate(s, r) == [i \in 1..Len(s) |-> s[((i - 1 + r) % Len(s)) + 1]]

RECURSIVE populate(_, _, _, _, _)
\* a loop that reports the failed write and goes on with the files after it
populateWritingOn(prog, order, i, d, failAt) ==
    IF i > Len(order)
    THEN [disk |-> d, err |-> FALSE, injected |-> FALSE, written |-> Len(order)]
    ELSE LET name == order[i]
             r == IF prog.version = 1
                  THEN createFile(d, name, prog.files[name], Perm(name), i = failAt)
                  ELSE createFileRun(d, name, prog.files[name], Perm(name), i = failAt)
             rest == CHOOSE res \in {populate(prog, order, i + 1, d2, failAt) :
                                      d2 \in {r.disk}} : TRUE
         IN IF r.err
            THEN [disk |-> rest.disk, err |-> TRUE, injected |-> (i = failAt),
                  written |-> i - 1]
            ELSE rest

\* the loop of openDir (program.go:131-140): files in map order, stop at the
\* first error; failAt is the position whose write fails (0: none)
populate(prog, order, i, d, failAt) ==
    IF i > Len(order)
    THEN [disk |-> d, err |-> FALSE, injected |-> FALSE, written |-> Len(order)]
    ELSE LET name == order[i]
             r == IF prog.version = 1
                  THEN createFile(d, name, prog.files[name], Perm(name), i = failAt)
                  ELSE createFileRun(d, name, prog.files[name], Perm(name), i = failAt)
         IN IF r.err
            THEN [disk |-> r.disk, err |-> TRUE, injected |-> (i = failAt),
                  written |-> i - 1]
            ELSE CHOOSE res \in {populate(prog, order, i + 1, d2, failAt) :
                                   d2 \in {r.disk}} : TRUE

\* an openDir that takes the first temporary name whether or not it is in use
TargetDirFirstName(c, existing) ==
    IF c.program_tmpdir THEN PinnedDir ELSE TmpDir(1)

\* the directory openDir uses: the pinned one, or a fresh temporary one
TargetDir(c, existing) ==
    IF c.program_tmpdir THEN PinnedDir
    ELSE TmpDir(CHOOSE i \in 1..MaxTmpDirs :
                  /\ TmpDir(i) \notin existing
                  /\ \A j \in 1..(i - 1) : TmpDir(j) \in existing)

\* a handler that goes on to the command whatever openDir returned
AfterOpenDirAlwaysExec(v, err) == "exec"

\* where the handler goes after openDir: the three handlers of resource.go
\* defer closeDir before looking at the diagnostics (resource.go:104-108),
\* runProgram after (program.go:672-676)
AfterOpenDir(v, err) ==
    IF ~err THEN "exec"
    ELSE IF v = "delete" THEN "setId" ELSE "closeDir"

\* the calls of openDir that can fail, and the map orders that can show
OpenDirFaults(st, c) ==
    {[at |-> "none", k |-> 0, r |-> r] : r \in 0..(NumOrders - 1)}
    \cup (IF Budget(st) <= 0 THEN {}
          ELSE {Fault(x) : x \in {"getwd", "mkdirall"}
                                 \cup (IF c.program_tmpdir THEN {} ELSE {"tempdir"})}
               \cup {[at |-> "createFile", k |-> k, r |-> r] :
                       k \in 1..Len(st.p.names), r \in 0..(NumOrders - 1)})

\* openDir (program.go:91-142 and 507-558)
openDir(st, c, fault) ==
    LET dir == TargetDir(c, st.dirs)
        start == IF dir \in st.dirs THEN st.disk ELSE EmptyDisk
        res == populate(st.p, Rotate(st.p.names, fault.r), 1, start, fault.k)
    IN IF fault.at \in {"getwd", "mkdirall", "tempdir"}
       THEN Log([st EXCEPT !.diags = Append(@, Diag("Error", fault.at)),
                           !.emitted = Append(@, Diag("Error", fault.at)),
                           !.faults = @ + 1,
                           !.pc = AfterOpenDir(st.verb, TRUE)],
                "openDir:failed")
       ELSE Log([st EXCEPT !.p.currentTmpDir = dir,
                           !.opened = dir,
                           !.dirs = @ \cup {dir},
                           !.disk = res.disk,
                           !.diags = IF res.err THEN Append(@, Diag("Error", "createFile"))
                                     ELSE @,
                           !.emitted = IF res.err
                                       THEN Append(@, Diag("Error", "createFile"))
                                       ELSE @,
                           !.faults = IF res.injected THEN @ + 1 ELSE @,
                           !.pc = AfterOpenDir(st.verb, res.err)],
                IF res.err THEN "openDir:partial" ELSE "openDir:ok")

\* ------------------------------------------------------- executeCommand
\* a create that never looks at program_create
CommandKeyWithoutCreate(v, c) ==
    CASE v = "create" -> "program_update"
      [] v = "read" -> "program_read"
      [] v = "update" -> "program_update"
      [] OTHER -> "program_delete"

\* the command a verb runs (resource.go:109-118, 142, 168, 187)
CommandKey(v, c) ==
    CASE v = "create" -> IF c.program_create THEN "program_create" ELSE "program_update"
      [] v = "read" -> "program_read"
      [] v = "update" -> "program_update"
      [] OTHER -> "program_delete"

\* exec.LookPath in the environment explored: prog is on the PATH, rel is
\* found through a relative PATH entry (exec.ErrDot), missing is nowhere
LookPath(file) ==
    CASE file = "rel" -> "ErrDot"
      [] file \in {"missing", ""} -> "ErrNotFound"
      [] OTHER -> "nil"

\* getArgs (program.go:322-329, 645-652): the list of the configuration
getArgs(c, key) == c.commands[key]

Abs(dir) == "/cwd/" \o dir

\* the environment of the provider process
Environ == {"PATH=/usr/bin", "HOME=/root"}

\* a prepareEnv that always lists the files of combined capture
prepareEnvCombinedNames(prog) ==
    [inherited |-> Environ,
     TF_EXTERNAL_DIR |-> prog.currentTmpDir,
     TF_EXTERNAL_DIR_ABS |-> Abs(prog.currentTmpDir),
     TF_EXTERNAL_MANAGED_FILES |-> Range(FileNames(TRUE))]

\* prepareEnv (program.go:143-172): os.Environ() and the three variables
\* added to it; the names of TF_EXTERNAL_MANAGED_FILES come in map order,
\* kept here as their set
prepareEnv(prog) ==
    [inherited |-> Environ,
     TF_EXTERNAL_DIR |-> prog.currentTmpDir,
     TF_EXTERNAL_DIR_ABS |-> Abs(prog.currentTmpDir),
     TF_EXTERNAL_MANAGED_FILES |-> Range(prog.names)]

\* where the handler goes after executeCommand: the fallback branch of
\* create (resource.go:115-118) does not look at the diagnostics
AfterExecute(v, c, err) ==
    IF v = "create" /\ ~c.program_create THEN "storeId"
    ELSE IF err THEN "closeDir" ELSE "storeId"

\* the calls of executeCommand that can fail before the command runs
ExecuteFaults(st) ==
    {NoFault}
    \cup (IF Budget(st) <= 0 \/ st.p.currentTmpDir = "" THEN {}
          ELSE {Fault(x) : x \in {"abs", "start"}
                                 \cup (IF st.p.version = 1 THEN {"openFileForWriting"}
                                       ELSE {})})

\* executeCommand up to cmd.Start (program.go:174-240, 590-601):
\* exec.CommandContext looks args[0] up and keeps the error, which cmd.Start
\* or cmd.CombinedOutput returns before any process is made
executeStart(st, c, fault) ==
    IF st.p.currentTmpDir = ""
    THEN Log([st EXCEPT !.diags = Append(@, Diag("Error", "prepareEnv")),
                        !.emitted = Append(@, Diag("Error", "prepareEnv")),
                        !.pc = AfterExecute(st.verb, c, TRUE)],
             "exec:failed")
    ELSE IF fault.at # "none"
    THEN LET ds == IF fault.at = "start" /\ st.p.version = 2
                   THEN <<Diag("Warning", "output"), Diag("Error", "start")>>
                   ELSE <<Diag("Error", fault.at)>>
         IN Log([st EXCEPT
                   !.diags = @ \o ds,
                   !.emitted = @ \o ds,
                   !.report = IF fault.at = "start"
                              THEN [command |-> CommandKey(st.verb, c),
                                    error |-> "start", output |-> ""]
                              ELSE @,
                   !.faults = @ + 1,
                   !.pc = AfterExecute(st.verb, c, TRUE)],
                "exec:failed")
    ELSE IF LookPath(getArgs(c, CommandKey(st.verb, c))[1]) # "nil"
    THEN LET ds == IF st.p.version = 2
                   THEN <<Diag("Warning", "output"), Diag("Error", "start")>>
                   ELSE <<Diag("Error", "start")>>
         IN Log([st EXCEPT
                   !.diags = @ \o ds,
                   !.emitted = @ \o ds,
                   !.report = [command |-> CommandKey(st.verb, c),
                               error |-> LookPath(getArgs(c, CommandKey(st.verb, c))[1]),
                               output |-> ""],
                   !.pc = AfterExecute(st.verb, c, TRUE)],
                "exec:failed")
    ELSE Log([st EXCEPT !.launched = Append(@, [key |-> CommandKey(st.verb, c),
                                                argv |-> getArgs(c, CommandKey(st.verb, c)),
                                                env |-> prepareEnv(st.p)]),
                        !.atLaunch = st.disk,
                        !.pc = "running"],
             "exec:start")

\* a captured output that also quotes the sensitive output file
outputReprWithFiles(st, c) ==
    (IF st.p.version # 1 THEN st.printed.stdout \o st.printed.stderr
     ELSE IF c.program_output_combined THEN st.disk["stdall"].content
     ELSE "=== STDOUT ===\n" \o st.disk["stdout"].content
          \o "=== STDERR ===\n" \o st.disk["stderr"].content)
    \o st.disk["output_sensitive"].content

\* the captured output as executeCommand puts it into its diagnostics
\* (program.go:247-273, 601-605)
outputRepr(st, c) ==
    IF st.p.version # 1 THEN st.printed.stdout \o st.printed.stderr
    ELSE IF c.program_output_combined THEN st.disk["stdall"].content
    ELSE "=== STDOUT ===\n" \o st.disk["stdout"].content
         \o "=== STDERR ===\n" \o st.disk["stderr"].content

\* executeCommand from cmd.Wait on (program.go:242-292, 601-615)
executeWait(st, c) ==
    LET ds == <<Diag("Warning", "output")>> \o
              (IF st.exit # 0 THEN <<Diag("Error", "exit")>> ELSE <<>>)
    IN Log([st EXCEPT !.diags = @ \o ds,
                      !.emitted = @ \o ds,
                      !.report = IF st.exit # 0
                                 THEN [command |-> st.launched[Len(st.launched)].key,
                                       error |-> "exit",
                                       output |-> outputRepr(st, c)]
                                 ELSE @,
                      !.pc = AfterExecute(st.verb, c, st.exit # 0)],
           "exec:wait")

\* ------------------------------------------------------------- read-back
\* the calls of readFile that can fail for this file: sets of "chmod", "read",
\* "restore"; the two chmod calls are made only for a file the owner cannot read
ReadFaults(d, name, budget) ==
    LET kinds == {k \in {"chmod", "read", "restore"} :
                    /\ (k \o ":" \o name) \in ReadPoints
                    /\ d[name].exists
                    /\ k # "read" => ~OwnerRead(d[name].mode)}
    IN {F \in SUBSET kinds :
          /\ Cardinality(F) <= budget
          /\ "chmod" \in F => F = {"chmod"}}

\* a readFile that returns as soon as reading the content failed
readFileReturningOnReadError(d, name, F) ==
    LET file == d[name]
        couldNotRead == ~OwnerRead(file.mode)
    IN IF ~file.exists
       THEN [text |-> "", diags |-> <<Diag("Warning", "stat:" \o name)>>, disk |-> d]
       ELSE IF couldNotRead /\ "chmod" \in F
       THEN [text |-> "", diags |-> <<Diag("Error", "chmod:" \o name)>>, disk |-> d]
       ELSE IF "read" \in F
       THEN [text |-> "", diags |-> <<Diag("Error", "read:" \o name)>>,
             disk |-> IF couldNotRead THEN [d EXCEPT ![name].mode = Mode0400] ELSE d]
       ELSE [text |-> file.content,
             diags |-> IF couldNotRead /\ "restore" \in F
                       THEN <<Diag("Error", "restore:" \o name)>> ELSE <<>>,
             disk |-> IF couldNotRead /\ "restore" \in F
                      THEN [d EXCEPT ![name].mode = Mode0400] ELSE d]

\* a readFile for which a file that is gone is an error
readFileMissingIsError(d, name, F) ==
    LET file == d[name]
        couldNotRead == ~OwnerRead(file.mode)
    IN IF ~file.exists
       THEN [text |-> "", diags |-> <<Diag("Error", "stat:" \o name)>>, disk |-> d]
       ELSE IF couldNotRead /\ "chmod" \in F
       THEN [text |-> "", diags |-> <<Diag("Error", "chmod:" \o name)>>, disk |-> d]
       ELSE [text |-> IF "read" \in F THEN "" ELSE file.content,
             diags |-> (IF "read" \in F THEN <<Diag("Error", "read:" \o name)>>
                        ELSE <<>>)
                       \o (IF couldNotRead /\ "restore" \in F
                           THEN <<Diag("Error", "restore:" \o name)>> ELSE <<>>),
             disk |-> IF couldNotRead /\ "restore" \in F
                      THEN [d EXCEPT ![name].mode = Mode0400] ELSE d]

\* readFile (program.go:352-397)
readFile(d, name, F) ==
    LET file == d[name]
        couldNotRead == ~OwnerRead(file.mode)
    IN IF ~file.exists
       THEN [text |-> "", diags |-> <<Diag("Warning", "stat:" \o name)>>, disk |-> d]
       ELSE IF couldNotRead /\ "chmod" \in F
       THEN [text |-> "", diags |-> <<Diag("Error", "chmod:" \o name)>>, disk |-> d]
       ELSE [text |-> IF "read" \in F THEN "" ELSE file.content,
             diags |-> (IF "read" \in F THEN <<Diag("Error", "read:" \o name)>>
                        ELSE <<>>)
                       \o (IF couldNotRead /\ "restore" \in F
                           THEN <<Diag("Error", "restore:" \o name)>> ELSE <<>>),
             disk |-> IF couldNotRead /\ "restore" \in F
                      THEN [d EXCEPT ![name].mode = Mode0400] ELSE d]

\* a handler that reads the attributes back whatever storeId returned
AfterStoreIdContinuing(err) == "storeAttributes"

\* where the handler goes after storeId (resource.go:121-124, program.go:683-686)
AfterStoreId(err) == IF err THEN "closeDir" ELSE "storeAttributes"

\* a storeId that reports an empty id as an error
storeIdRequiringId(st, F) ==
    LET r == readFile(st.disk, "id", F)
        missing == IF ~HasError(r.diags) /\ r.text = ""
                   THEN <<Diag("Error", "missing-id")>> ELSE <<>>
        ds == st.diags \o r.diags \o missing
    IN Log([st EXCEPT !.data.id = IF HasError(r.diags) THEN @ ELSE r.text,
                      !.diags = ds,
                      !.disk = r.disk,
                      !.faults = @ + Cardinality(F),
                      !.pc = AfterStoreId(HasError(ds))],
           "storeId")

\* a storeId that keeps the old id when the file is empty
storeIdSkippingEmpty(st, F) ==
    LET r == readFile(st.disk, "id", F)
        ds == st.diags \o r.diags
    IN Log([st EXCEPT !.data.id = IF HasError(r.diags) \/ r.text = "" THEN @
                                  ELSE r.text,
                      !.diags = ds,
                      !.disk = r.disk,
                      !.faults = @ + Cardinality(F),
                      !.pc = AfterStoreId(HasError(ds))],
           "storeId")

\* a storeId after which the handler returns when the id is empty
storeIdStoppingOnEmpty(st, F) ==
    LET r == readFile(st.disk, "id", F)
        ds == st.diags \o r.diags
    IN Log([st EXCEPT !.data.id = IF HasError(r.diags) THEN @ ELSE r.text,
                      !.diags = ds,
                      !.emitted = @ \o r.diags,
                      !.disk = r.disk,
                      !.faults = @ + Cardinality(F),
                      !.pc = AfterStoreId(HasError(ds) \/ r.text = "")],
           "storeId")

\* storeId (program.go:294-301) and the check that follows it
storeId(st, F) ==
    LET r == readFile(st.disk, "id", F)
        ds == st.diags \o r.diags
    IN Log([st EXCEPT !.data.id = IF HasError(r.diags) THEN @ ELSE r.text,
                      !.diags = ds,
                      !.emitted = @ \o r.diags,
                      !.disk = r.disk,
                      !.faults = @ + Cardinality(F),
                      !.pc = AfterStoreId(HasError(ds))],
           "storeId")

\* a round that keeps only the diagnostics of the file it read
storeAttributeLastOnly(st, attribute, F) ==
    LET r == readFile(st.disk, attribute, F)
    IN [st EXCEPT !.data[attribute] = IF HasError(r.diags) THEN @ ELSE r.text,
                  !.disk = r.disk,
                  !.faults = @ + Cardinality(F),
                  !.emitted = @ \o r.diags,
                  !.local = r.diags]

\* one round of the loop of storeAttributes (program.go:304-318): an attribute
\* whose read fails is skipped, and the read's diagnostics go in front of the
\* loop's (st.local)
storeAttribute(st, attribute, F) ==
    LET r == readFile(st.disk, attribute, F)
    IN [st EXCEPT !.data[attribute] = IF HasError(r.diags) THEN @ ELSE r.text,
                  !.disk = r.disk,
                  !.faults = @ + Cardinality(F),
                  !.emitted = @ \o r.diags,
                  !.local = r.diags \o @]

\* the results storeAttributes can have (program.go:303-320)
RECURSIVE storeLoop(_, _)
storeLoop(attrs, S) ==
    IF attrs = <<>> THEN S
    ELSE CHOOSE res \in
           {storeLoop(Tail(attrs), T) :
              T \in {{storeAttribute(st, Head(attrs), F) :
                        <<st, F>> \in UNION {{<<s, G>> :
                                                G \in ReadFaults(s.disk, Head(attrs),
                                                                 Budget(s))} :
                                             s \in S}}}} : TRUE

storeAttributes(st) ==
    {Log([s EXCEPT !.diags = @ \o s.local, !.local = <<>>, !.pc = "closeDir"],
         "storeAttributes") : s \in storeLoop(Attributes, {st})}

\* --------------------------------------------------------------- closeDir
\* the retention test of closeDir (program.go:335-340)
Retained(c, hadError) ==
    c.program_tmpdir_keep \/ (c.program_tmpdir_keep_on_error /\ hadError)

\* closeDir of runProgram's program (program.go:654-667) has no retention test
RetainedRun(c, hadError) == FALSE

\* after the deferred closeDir the handler returns; resourceExternalDelete
\* goes on to clear the id (resource.go:187-190)
AfterCloseDir(v) == IF v = "delete" THEN "setId" ELSE "done"

\* os.RemoveAll can fail
CloseDirFaults(st) == {NoFault} \cup (IF Budget(st) <= 0 THEN {} ELSE {Fault("removeAll")})

\* a closeDir that reports a failed removal as an error
closeDirFailingHard(st, c, fault) ==
    LET hadError == HasError(st.diags)
        keep == IF st.p.version = 1 THEN Retained(c, hadError)
                ELSE RetainedRun(c, hadError)
        dir == st.p.currentTmpDir
        next == AfterCloseDir(st.verb)
    IN IF dir = "" THEN Log([st EXCEPT !.pc = next], "closeDir:none")
       ELSE IF keep THEN Log([st EXCEPT !.pc = next], "closeDir:kept")
       ELSE IF fault.at = "removeAll"
       THEN Log([st EXCEPT !.diags = Append(@, Diag("Error", "removeAll")),
                           !.emitted = Append(@, Diag("Error", "removeAll")),
                           !.faults = @ + 1,
                           !.p.currentTmpDir = "",
                           !.pc = next],
                "closeDir:failed")
       ELSE Log([st EXCEPT !.dirs = @ \ {dir},
                           !.disk = EmptyDisk,
                           !.p.currentTmpDir = "",
                           !.pc = next],
                "closeDir:removed")

\* a closeDir that removes the managed files of the invocation and leaves the
\* directory with whatever else it holds
closeDirManagedFiles(st, c, fault) ==
    LET hadError == HasError(st.diags)
        keep == IF st.p.version = 1 THEN Retained(c, hadError)
                ELSE RetainedRun(c, hadError)
        dir == st.p.currentTmpDir
        next == AfterCloseDir(st.verb)
        others == \E f \in AllFiles \ Range(st.p.names) : st.disk[f].exists
    IN IF dir = "" THEN Log([st EXCEPT !.pc = next], "closeDir:none")
       ELSE IF keep THEN Log([st EXCEPT !.pc = next], "closeDir:kept")
       ELSE IF fault.at = "removeAll"
       THEN Log([st EXCEPT !.diags = Append(@, Diag("Warning", "removeAll")),
                           !.emitted = Append(@, Diag("Warning", "removeAll")),
                           !.faults = @ + 1,
                           !.p.currentTmpDir = "",
                           !.pc = next],
                "closeDir:failed")
       ELSE Log([st EXCEPT !.dirs = IF others THEN @ ELSE @ \ {dir},
                           !.disk = [f \in AllFiles |->
                                       IF f \in Range(st.p.names) THEN NoFile
                                       ELSE st.disk[f]],
                           !.p.currentTmpDir = "",
                           !.pc = next],
                "closeDir:removed")

\* closeDir (program.go:331-350 and 654-667), run as the handler's deferred call
closeDir(st, c, fault) ==
    LET hadError == HasError(st.diags)
        keep == IF st.p.version = 1 THEN Retained(c, hadError)
                ELSE RetainedRun(c, hadError)
        dir == st.p.currentTmpDir
        next == AfterCloseDir(st.verb)
    IN IF dir = "" THEN Log([st EXCEPT !.pc = next], "closeDir:none")
       ELSE IF keep THEN Log([st EXCEPT !.pc = next], "closeDir:kept")
       ELSE IF fault.at = "removeAll"
       THEN Log([st EXCEPT !.diags = Append(@, Diag("Warning", "removeAll")),
                           !.emitted = Append(@, Diag("Warning", "removeAll")),
                           !.faults = @ + 1,
                           !.p.currentTmpDir = "",
                           !.pc = next],
                "closeDir:failed")
       ELSE Log([st EXCEPT !.dirs = @ \ {dir},
                           !.disk = EmptyDisk,
                           !.p.currentTmpDir = "",
                           !.pc = next],
                "closeDir:removed")

\* a delete that clears the id only when runProgram returned no error
SetIdOnSuccess(st) ==
    Log([st EXCEPT !.data.id = IF HasError(st.diags) THEN @ ELSE "", !.pc = "done"],
        "SetId")

\* resourceExternalDelete after runProgram (resource.go:189)
SetId(st) == Log([st EXCEPT !.data.id = "", !.pc = "done"], "SetId")

\* the states the handler can be in after its next step
\* (resource.go:101-191, program.go:669-694)
Outcomes(st, c) ==
    CASE st.pc = "openDir" -> {openDir(st, c, f) : f \in OpenDirFaults(st, c)}
      [] st.pc = "exec" -> {executeStart(st, c, f) : f \in ExecuteFaults(st)}
      [] st.pc = "wait" -> {executeWait(st, c)}
      [] st.pc = "storeId" ->
           {storeId(st, F) : F \in ReadFaults(st.disk, "id", Budget(st))}
      [] st.pc = "storeAttributes" -> storeAttributes(st)
      [] st.pc = "closeDir" -> {closeDir(st, c, f) : f \in CloseDirFaults(st)}
      [] st.pc = "setId" -> {SetId(st)}
      [] OTHER -> {st}

\* the states in which the handler waits for the command or has returned
RECURSIVE run(_, _)
run(S, c) ==
    IF \A s \in S : s.pc \in {"running", "done"} THEN S
    ELSE CHOOSE res \in {run(T, c) : T \in {UNION {Outcomes(s, c) : s \in S}}} : TRUE

\* ------------------------------------------------------------- actions
Assign(st) ==
    /\ verb' = st.verb
    /\ pc' = st.pc
    /\ data' = st.data
    /\ p' = st.p
    /\ diags' = st.diags
    /\ dirs' = st.dirs
    /\ disk' = st.disk
    /\ faults' = st.faults
    /\ exit' = st.exit
    /\ trace' = st.trace
    /\ launched' = st.launched
    /\ atLaunch' = st.atLaunch
    /\ opened' = st.opened
    /\ emitted' = st.emitted
    /\ report' = st.report

\* a free temporary name exists, or the directory is pinned
CanOpen == cfg.program_tmpdir \/ (TmpDirs \ dirs) # {}

\* the host engine enters a handler, which runs until it waits for the command
\* or returns
Enter(v, d, prog) ==
    /\ pc = "idle"
    /\ CanOpen
    /\ LET st == [verb |-> v, pc |-> "openDir", data |-> d, p |-> prog,
                  diags |-> <<>>, local |-> <<>>, dirs |-> dirs, disk |-> disk,
                  faults |-> 0, exit |-> -1, trace |-> <<>>, launched |-> <<>>,
                  atLaunch |-> EmptyDisk, opened |-> "", emitted |-> <<>>,
                  printed |-> NoOutput, report |-> NoReport]
       IN \E end \in run({st}, cfg) : Assign(end)
    /\ pre' = d
    /\ atExit' = EmptyDisk
    /\ printed' = NoOutput
    /\ UNCHANGED <<cfg, store, par, stored, ctx, q>>

\* create is called for a resource that does not exist: the data holds the
\* planned state, the computed attributes are empty (resource.go:101-108)
resourceExternalCreate ==
    /\ data.id = ""
    /\ \E s \in CreateStates :
         LET d == [id |-> "", state |-> s, output |-> "", output_sensitive |-> ""]
         IN Enter("create", d, Program(cfg, d, "", s))

\* read: the data holds the stored attributes, GetChange gives the stored
\* state twice (resource.go:133-140)
resourceExternalRead ==
    /\ data.id # ""
    /\ Enter("read", data, Program(cfg, data, data.state, data.state))

\* update: the data holds the planned state, old_state the stored one
\* (resource.go:159-167)
resourceExternalUpdate ==
    /\ data.id # ""
    /\ \E s \in UpdateStates \cup {data.state} :
         LET d == [data EXCEPT !.state = s]
         IN Enter("update", d, Program(cfg, d, data.state, s))

\* delete (resource.go:186-191) runs runProgram (program.go:669-694)
resourceExternalDelete ==
    /\ data.id # ""
    /\ Enter("delete", data, ProgramRunProgram(cfg, data, data.state, data.state))

\* what a command writes to its streams: a failing one explains itself
Prints(status) ==
    IF status = 0 THEN NoOutput ELSE [stdout |-> "partial", stderr |-> "boom"]

\* the platforms the provider is built for
Platforms == {"unix", "windows"}

\* the capture files after the command wrote out to its streams.  They are
\* opened by openFileForWriting with os.O_APPEND alone (program.go:413-423):
\* on unix that descriptor is read-only and the command's writes fail, on
\* windows O_APPEND grants append access.  runProgram's executeCommand
\* captures through a pipe (program.go:601) and has no capture file.
Capture(d, prog, out, platform) ==
    IF prog.version # 1 \/ platform = "unix" THEN d
    ELSE [f \in AllFiles |->
            IF f \notin Range(prog.names) \/ ~d[f].exists THEN d[f]
            ELSE CASE f = "stdall" -> [d[f] EXCEPT !.content = @ \o out.stdout \o out.stderr]
                   [] f = "stdout" -> [d[f] EXCEPT !.content = @ \o out.stdout]
                   [] f = "stderr" -> [d[f] EXCEPT !.content = @ \o out.stderr]
                   [] OTHER -> d[f]]

\* the external command: it changes id, state, output, output_sensitive as it
\* likes, writes to its streams and exits with a status
programRun ==
    /\ pc = "running"
    /\ \E b \in Behaviours, platform \in Platforms :
         /\ disk' = Capture([disk EXCEPT !["id"] = ApplyOp(@, b.id),
                                         !["state"] = ApplyOp(@, b.attrs[1]),
                                         !["output"] = ApplyOp(@, b.attrs[2]),
                                         !["output_sensitive"] = ApplyOp(@, b.attrs[3])],
                            p, Prints(b.status), platform)
         /\ exit' = b.status
         /\ printed' = Prints(b.status)
    /\ atExit' = disk'
    /\ pc' = "exited"
    /\ trace' = Append(trace, "program:exit")
    /\ UNCHANGED <<cfg, data, verb, p, diags, dirs, faults, pre, launched, atLaunch,
                   opened, store, par, emitted, report, stored, ctx, q>>

\* cmd.Wait returns and the handler runs to its end
cmdWait ==
    /\ pc = "exited"
    /\ LET st == [verb |-> verb, pc |-> "wait", data |-> data, p |-> p,
                  diags |-> diags, local |-> <<>>, dirs |-> dirs, disk |-> disk,
                  faults |-> faults, exit |-> exit, trace |-> trace,
                  launched |-> launched, atLaunch |-> atLaunch, opened |-> opened,
                  emitted |-> emitted, printed |-> printed, report |-> report]
       IN \E end \in run({st}, cfg) : Assign(end)
    /\ UNCHANGED <<cfg, pre, atExit, store, par, printed, stored, ctx, q>>

\* the handler has returned: the host engine keeps the data, and a pinned
\* directory that was not removed keeps its files
hostReturn ==
    /\ pc = "done"
    /\ pc' = "idle"
    /\ verb' = "none"
    /\ p' = NoProgram
    /\ diags' = <<>>
    /\ faults' = 0
    /\ exit' = -1
    /\ pre' = data
    /\ trace' = <<>>
    /\ launched' = <<>>
    /\ atLaunch' = EmptyDisk
    /\ atExit' = EmptyDisk
    /\ opened' = ""
    /\ emitted' = <<>>
    /\ printed' = NoOutput
    /\ report' = NoReport
    /\ disk' = IF cfg.program_tmpdir THEN disk ELSE EmptyDisk
    /\ stored' = IF data.id = "" THEN NoResource ELSE data
    /\ ctx' = "live"
    /\ UNCHANGED <<cfg, data, dirs, store, par, q>>

Next ==
    \/ hostReturn
    \/ resourceExternalCreate
    \/ resourceExternalRead
    \/ resourceExternalUpdate
    \/ resourceExternalDelete
    \/ programRun
    \/ cmdWait

Spec == Init /\ [][Next]_vars

\* ------------------------------------------------------------ cancellation
\* the host engine cancels the context of the invocation while the command
\* runs (an interrupt or a timeout)
contextCancel ==
    /\ pc = "running"
    /\ ctx = "live"
    /\ ctx' = "cancelled"
    /\ UNCHANGED <<cfg, data, verb, pc, p, diags, dirs, disk, faults, exit, pre,
                   trace, launched, atLaunch, atExit, opened, store, par, emitted,
                   printed, report, stored, q>>

\* exec.CommandContext (program.go:176, 592) kills the process when the
\* context is done: the command stops wherever it was, with the files it had
\* changed by then.  cmd.Wait then returns at once for create, read and update,
\* whose command writes to files; cmd.CombinedOutput of delete (program.go:601)
\* also waits for the end of the pipe it reads, which a process the command
\* started may still hold (no cmd.WaitDelay is set)
processKill ==
    /\ pc = "running"
    /\ ctx = "cancelled"
    /\ \E b \in Behaviours, platform \in Platforms :
         /\ disk' = Capture([disk EXCEPT !["id"] = ApplyOp(@, b.id),
                                         !["state"] = ApplyOp(@, b.attrs[1]),
                                         !["output"] = ApplyOp(@, b.attrs[2]),
                                         !["output_sensitive"] = ApplyOp(@, b.attrs[3])],
                            p, Prints(b.status), platform)
         /\ printed' = Prints(b.status)
    /\ exit' = 9
    /\ atExit' = disk'
    /\ pc' \in IF p.version = 1 THEN {"exited"} ELSE {"exited", "blocked"}
    /\ trace' = Append(trace, "program:killed")
    /\ UNCHANGED <<cfg, data, verb, p, diags, dirs, faults, pre, launched, atLaunch,
                   opened, store, par, emitted, report, stored, ctx, q>>

\* the last process that held the pipe of the command's output has ended
pipeClosed ==
    /\ pc = "blocked"
    /\ pc' = "exited"
    /\ UNCHANGED <<cfg, data, verb, p, diags, dirs, disk, faults, exit, pre, trace,
                   launched, atLaunch, atExit, opened, store, par, emitted, printed,
                   report, stored, ctx, q>>

NextCancel ==
    \/ Next
    \/ contextCancel
    \/ processKill
    \/ pipeClosed

\* the configurations explored under cancellation: combined capture, every
\* retention setting of a temporary directory
CancelConfigs ==
    {c \in Configs : ~c.program_tmpdir /\ c.program_output_combined
                     /\ c.program_create}

InitCancel == cfg \in CancelConfigs /\ Idle

\* the Go runtime kills the process once the context is done, and a handler
\* whose cmd.Wait can return goes on; nothing makes a process that holds the
\* pipe end
SpecCancel ==
    InitCancel /\ [][NextCancel]_vars
    /\ WF_vars(processKill) /\ WF_vars(cmdWait)

\* the command vectors explored: with arguments, with an empty string among
\* the arguments or in front, a program found through a relative PATH entry,
\* a program that is nowhere
CommandVectors ==
    {PlainCommand,
     <<"prog">>,
     <<"prog", "", "arg1">>,
     <<"", "prog">>,
     <<"rel", "arg1">>,
     <<"missing", "arg1">>}

\* the configurations with the schema's default directory and capture
\* settings, with and without program_create, and every command vector
CommandConfigs ==
    {[c EXCEPT !.commands = Commands(v)] :
       c \in {d \in Configs : /\ ~d.program_tmpdir /\ ~d.program_tmpdir_keep
                               /\ ~d.program_tmpdir_keep_on_error
                               /\ d.program_output_combined},
       v \in CommandVectors}

InitCommand == cfg \in CommandConfigs /\ Idle

\* the lifecycle handlers under every command vector
SpecCommand == InitCommand /\ [][Next]_vars

\* the configurations explored for what the diagnostics carry: both capture
\* settings, a temporary and a pinned directory, the default retention
SensitiveConfigs ==
    {c \in Configs : ~c.program_tmpdir_keep /\ ~c.program_tmpdir_keep_on_error}

InitSensitive == cfg \in SensitiveConfigs /\ Idle

SpecSensitive == InitSensitive /\ [][Next]_vars

\* ------------------------------------------- the acceptance test's program
\* cmd_update, cmd_read and cmd_delete of the script of TestAccResourceExternal:
\* update (also configured as program_create) writes the input into id and output and keeps
\* the state file's content in a file of its own; read writes the input into
\* output and that file's content into state; delete removes the file
testProgram(key, d, kept) ==
    CASE key \in {"program_create", "program_update"} ->
           [disk |-> [d EXCEPT !["id"] = ApplyOp(@, Write(d["input"].content)),
                               !["output"] = ApplyOp(@, Write(d["input"].content))],
            store |-> d["state"].content]
      [] key = "program_read" ->
           [disk |-> [d EXCEPT !["output"] = ApplyOp(@, Write(d["input"].content)),
                               !["state"] = ApplyOp(@, Write(kept))],
            store |-> kept]
      [] OTHER -> [disk |-> d, store |-> ""]

\* the command of the acceptance test runs and exits with status 0
testProgramRun ==
    /\ pc = "running"
    /\ LET r == testProgram(launched[Len(launched)].key, disk, store)
       IN /\ disk' = r.disk
          /\ store' = r.store
    /\ exit' = 0
    /\ atExit' = disk'
    /\ pc' = "exited"
    /\ trace' = Append(trace, "program:exit")
    /\ UNCHANGED <<cfg, data, verb, p, diags, dirs, faults, pre, launched, atLaunch,
                   opened, par, emitted, printed, report, stored, ctx, q>>

\* resource.Test goes on to its next step only when a step returned no error
testStepReturn ==
    /\ ~HasError(diags)
    /\ hostReturn

NextTest ==
    \/ testStepReturn
    \/ resourceExternalCreate
    \/ resourceExternalRead
    \/ resourceExternalUpdate
    \/ resourceExternalDelete
    \/ testProgramRun
    \/ cmdWait

SpecTest == Init /\ [][NextTest]_vars

\* --------------------------------------------- invocations side by side
\* The host engine runs the handlers of different resources in parallel; they
\* share the filesystem and nothing else.  Each handler's steps are those of
\* resourceExternalRead, reduced to what they do to the directories.
ExistingDirs == {n \in DOMAIN par.fs : par.fs[n].exists}
Active(i) == par.inv[i].pc # "idle"

\* openDir up to ioutil.TempDir / os.MkdirAll (program.go:101-129): TempDir
\* makes a directory that did not exist, MkdirAll accepts one that does
parTempDir(i) ==
    /\ par.inv[i].pc = "idle"
    /\ cfg.program_tmpdir \/ (TmpDirs \ ExistingDirs) # {}
    /\ LET dir == TargetDir(cfg, ExistingDirs)
       IN par' = [par EXCEPT !.fs[dir].exists = TRUE,
                             !.inv[i] = [pc |-> "made", dir |-> dir, seen |-> {}]]
    /\ UNCHANGED <<seq, q>>

\* the loop of openDir (program.go:131-140) writes the managed files
parPopulate(i) ==
    /\ par.inv[i].pc = "made"
    /\ par' = [par EXCEPT !.fs[par.inv[i].dir].writers = @ \cup {i},
                          !.inv[i].pc = "opened"]
    /\ UNCHANGED <<seq, q>>

\* the command writes into the directory TF_EXTERNAL_DIR names
parExecuteCommand(i) ==
    /\ par.inv[i].pc = "opened"
    /\ par' = [par EXCEPT !.fs[par.inv[i].dir].writers =
                            IF par.fs[par.inv[i].dir].exists THEN @ \cup {i} ELSE @,
                          !.inv[i].pc = "executed"]
    /\ UNCHANGED <<seq, q>>

\* storeId and storeAttributes read the files of p.currentTmpDir (0: the
\* files are gone)
parReadBack(i) ==
    /\ par.inv[i].pc = "executed"
    /\ par' = [par EXCEPT !.inv[i].seen =
                            IF par.fs[par.inv[i].dir].exists
                            THEN par.fs[par.inv[i].dir].writers ELSE {0},
                          !.inv[i].pc = "read"]
    /\ UNCHANGED <<seq, q>>

\* closeDir (program.go:331-350) removes p.currentTmpDir unless it is retained
parCloseDir(i) ==
    /\ par.inv[i].pc = "read"
    /\ par' = [par EXCEPT !.fs[par.inv[i].dir] =
                            IF Retained(cfg, FALSE) THEN @ ELSE NoDir,
                          !.inv[i] = [pc |-> "idle", dir |-> "", seen |-> {}]]
    /\ UNCHANGED <<seq, q>>

NextPar ==
    \/ \E i \in Procs : parTempDir(i)
    \/ \E i \in Procs : parPopulate(i)
    \/ \E i \in Procs : parExecuteCommand(i)
    \/ \E i \in Procs : parReadBack(i)
    \/ \E i \in Procs : parCloseDir(i)

SpecPar == Init /\ [][NextPar]_vars

\* ------------------------------------------------- the stateless protocol
\* The data source (src/unnamed/part_009: dynamic result; src/unnamed/part_010,
\* lines 221-389: string-map result) and the ephemeral resource
\* (ephemeral.go: string-map result, no id) send the query to the program's
\* standard input and parse what it prints.

\* a types.String of the configuration: null, or a string
StringNull == [null |-> TRUE, s |-> ""]
StringValue(x) == [null |-> FALSE, s |-> x]
ValueString(v) == IF v.null THEN "" ELSE v.s

\* the program lists explored (the schema asks for at least one element)
ProgramLists ==
    {<<StringValue("prog")>>,
     <<StringValue("prog"), StringValue("arg1"), StringValue("arg2")>>,
     <<StringValue(""), StringValue("prog")>>,
     <<StringValue("prog"), StringValue(""), StringValue("arg1")>>,
     <<StringNull, StringValue("prog"), StringNull, StringValue("arg2"),
       StringValue("arg1")>>,
     <<StringValue("")>>,
     <<StringNull, StringValue("")>>,
     <<StringValue("rel"), StringValue("arg1")>>,
     <<StringValue("missing"), StringValue("arg1")>>}

\* the keys a query may have
NumKeys == 2
QueryKeys == {"key" \o ToString(i) : i \in 1..NumKeys}
\* the query attribute: null, or a map of types.String
Queries ==
    {[null |-> TRUE, elems |-> <<>>]}
    \cup {[null |-> FALSE, elems |-> f] :
            f \in UNION {[K -> {StringNull, StringValue(""), StringValue("v")}] :
                           K \in SUBSET QueryKeys}}

\* JSON documents: the type of the value, the number hi * 2^30 + lo of a number
\* as <<hi, lo>>, the text of another scalar, and the children of an array or
\* object as members (the key of an element is empty)
JNull == [t |-> "null", n |-> <<0, 0>>, s |-> "", c |-> <<>>]
JBool(b) == [t |-> "bool", n |-> <<0, 0>>, s |-> IF b THEN "true" ELSE "false", c |-> <<>>]
JNum(hi, lo) == [t |-> "num", n |-> <<hi, lo>>, s |-> "", c |-> <<>>]
JStr(x) == [t |-> "str", n |-> <<0, 0>>, s |-> x, c |-> <<>>]
Member(key, val) == [key |-> key, val |-> val]
JArr(elems) == [t |-> "arr", n |-> <<0, 0>>, s |-> "",
                c |-> [i \in 1..Len(elems) |-> Member("", elems[i])]]
JObj(members) == [t |-> "obj", n |-> <<0, 0>>, s |-> "", c |-> members]

\* what a program prints on its standard output: nothing, text that is not
\* JSON, or a JSON document
NoStdout == [raw |-> "none", doc |-> JNull]
Stdouts ==
    {[raw |-> "empty", doc |-> JNull], [raw |-> "garbage", doc |-> JNull]}
    \cup {[raw |-> "json", doc |-> d] :
            d \in {JNull, JBool(TRUE), JNum(0, 7), JStr("text"),
                   JArr(<<JStr("a"), JNum(0, 1), JNull, JStr("b")>>),
                   JObj(<<>>),
                   JObj(<<Member("a", JStr("x"))>>),
                   JObj(<<Member("a", JStr("x")), Member("b", JStr(""))>>),
                   JObj(<<Member("a", JStr("x")), Member("b", JNull)>>),
                   JObj(<<Member("a", JStr("x")), Member("b", JNum(0, 1))>>),
                   JObj(<<Member("id", JNum(8388608, 1))>>),
                   JObj(<<Member("a", JArr(<<JBool(FALSE), JStr("y")>>)),
                          Member("b", JObj(<<Member("c", JStr("z"))>>))>>)}}

\* a diagnostic of the stateless handlers: its summary, and for a failed
\* execution the standard error it quotes (and whether it says there was none)
QDiag(summary, stderr, note) ==
    [sev |-> "Error", summary |-> summary, stderr |-> stderr, note |-> note]

\* the handlers
Kinds == {"dataSource", "dataSourceStringMap", "ephemeral"}

\* the loop over config.Program (part_009:115-123, ephemeral.go:107-115)
FilteredProgram(program) ==
    LET kept == SelectSeq(program, LAMBDA e : ~(e.null \/ ValueString(e) = ""))
    IN [i \in 1..Len(kept) |-> ValueString(kept[i])]

\* the loop over config.Query: part_009:142-156 and ephemeral.go:134-148 skip
\* null values, part_010:264-267 takes ValueString() of every element
FilteredQuery(kind, query) ==
    LET keys == IF query.null THEN {}
                ELSE IF kind = "dataSourceStringMap" THEN DOMAIN query.elems
                ELSE {k \in DOMAIN query.elems : ~query.elems[k].null}
    IN [k \in keys |-> ValueString(query.elems[k])]

\* json.Marshal of a map[string]string: an object of strings, keys in order
Marshal(m) ==
    LET keys == SelectSeq([i \in 1..NumKeys |-> "key" \o ToString(i)],
                          LAMBDA k : k \in DOMAIN m)
    IN JObj([i \in 1..Len(keys) |-> Member(keys[i], JStr(m[keys[i]]))])

\* json.Unmarshal into an interface{} (part_009:258-259): the Go value of a
\* document
GoType(t) ==
    CASE t = "null" -> "nil"
      [] t = "bool" -> "bool"
      [] t = "num" -> "float64"
      [] t = "str" -> "string"
      [] t = "arr" -> "[]interface{}"
      [] OTHER -> "map[string]interface{}"

\* the float64 nearest to hi * 2^30 + lo (hi < 2^31, lo < 2^30), as
\* strconv.ParseFloat gives it: a float64 has 53 bits of mantissa, so a number
\* below 2^53 is exact and a larger one is rounded to a multiple of step, to
\* the even mantissa when it lies half-way
Float64(n) ==
    LET hi == n[1]
        lo == n[2]
        Pow2(k) == 2 ^ k
        extra == CHOOSE k \in 0..8 : hi < Pow2(23 + k) /\ (k = 0 \/ hi >= Pow2(22 + k))
        step == Pow2(extra)
        down == (lo \div step) * step
        rest == lo - down
        up == 2 * rest > step \/ (2 * rest = step /\ (lo \div step) % 2 = 1)
        rounded == IF up THEN down + step ELSE down
    IN IF rounded = Pow2(30) THEN <<hi + 1, 0>> ELSE <<hi, rounded>>

RECURSIVE Unmarshal(_)
Unmarshal(d) ==
    [g |-> GoType(d.t), n |-> IF d.t = "num" THEN Float64(d.n) ELSE <<0, 0>>,
     s |-> d.s,
     c |-> [i \in 1..Len(d.c) |-> Member(d.c[i].key, Unmarshal(d.c[i].val))]]

\* json.Unmarshal into a map[string]string (part_010:361-362,
\* ephemeral.go:250-251): null leaves the target as it is, for the map and for
\* a member alike (a null document makes the map nil); any other value that is
\* not a string is a type error
UnmarshalStringMap(d) ==
    CASE d.t = "null" -> [err |-> FALSE, isNil |-> TRUE, m |-> <<>>]
      [] d.t = "obj" ->
           [err |-> \E i \in 1..Len(d.c) : d.c[i].val.t \notin {"str", "null"},
            isNil |-> FALSE,
            m |-> [i \in 1..Len(d.c) |->
                     Member(d.c[i].key,
                            IF d.c[i].val.t = "str" THEN d.c[i].val.s ELSE "")]]
      [] OTHER -> [err |-> TRUE, isNil |-> FALSE, m |-> <<>>]

\* types.MapValueFrom(ctx, types.StringType, result): a nil map gives the null
\* map
MapValueFrom(r) ==
    IF r.isNil THEN [k |-> "MapNull", n |-> <<0, 0>>, s |-> "", c |-> <<>>]
    ELSE [k |-> "Map", n |-> <<0, 0>>, s |-> "",
          c |-> [i \in 1..Len(r.m) |->
                   Member(r.m[i].key,
                          [k |-> "String", n |-> <<0, 0>>, s |-> r.m[i].val, c |-> <<>>])]]

DynamicNull == [k |-> "DynamicNull", n |-> <<0, 0>>, s |-> "", c |-> <<>>]
NoResult == [k |-> "unset", n |-> <<0, 0>>, s |-> "", c |-> <<>>]

RECURSIVE convertJSONToDynamic(_)
\* convertJSONToDynamic (part_009:288-350)
convertJSONToDynamic(value) ==
    CASE value.g = "nil" -> DynamicNull
      [] value.g = "bool" -> [k |-> "Bool", n |-> <<0, 0>>, s |-> value.s, c |-> <<>>]
      [] value.g = "float64" -> [k |-> "Number", n |-> value.n, s |-> "", c |-> <<>>]
      [] value.g = "string" -> [k |-> "String", n |-> <<0, 0>>, s |-> value.s, c |-> <<>>]
      [] value.g = "[]interface{}" ->
           [k |-> "Tuple", n |-> <<0, 0>>, s |-> "",
            c |-> [i \in 1..Len(value.c) |->
                     Member("", convertJSONToDynamic(value.c[i].val))]]
      [] OTHER ->
           [k |-> "Object", n |-> <<0, 0>>, s |-> "",
            c |-> [i \in 1..Len(value.c) |->
                     Member(value.c[i].key, convertJSONToDynamic(value.c[i].val))]]

\* a filter that keeps the empty strings of the program list
queryStartKeepingEmpty(kind, program, query, started) ==
    LET filteredProgram == [i \in 1..Len(SelectSeq(program, LAMBDA e : ~e.null)) |->
                              ValueString(SelectSeq(program, LAMBDA e : ~e.null)[i])]
        st == [NoQuery EXCEPT !.kind = kind, !.program = program, !.query = query]
    IN IF filteredProgram = <<>>
       THEN [st EXCEPT !.pc = "done",
                       !.diags = <<QDiag("External Program Missing", "", FALSE)>>]
       ELSE IF LookPath(filteredProgram[1]) \notin {"nil", "ErrDot"}
       THEN [st EXCEPT !.pc = "done",
                       !.diags = <<QDiag("External Program Lookup Failed", "", FALSE)>>]
       ELSE IF ~started
       THEN [st EXCEPT !.pc = "done",
                       !.argv = filteredProgram,
                       !.diags = <<QDiag("External Program Execution Failed", "",
                                         kind # "dataSourceStringMap")>>]
       ELSE [st EXCEPT !.pc = "running",
                       !.argv = filteredProgram,
                       !.stdin = [sent |-> TRUE,
                                  doc |-> Marshal(FilteredQuery(kind, query))],
                       !.spawned = 1]

\* Read and Open up to cmd.Output (part_009:99-228, part_010:221-322,
\* ephemeral.go:91-220): the program list is filtered, the query marshalled,
\* the program looked up and started
queryStart(kind, program, query, started) ==
    LET filteredProgram == FilteredProgram(program)
        st == [NoQuery EXCEPT !.kind = kind, !.program = program, !.query = query]
    IN IF filteredProgram = <<>>
       THEN [st EXCEPT !.pc = "done",
                       !.diags = <<QDiag("External Program Missing", "", FALSE)>>]
       ELSE IF LookPath(filteredProgram[1]) \notin {"nil", "ErrDot"}
       THEN [st EXCEPT !.pc = "done",
                       !.diags = <<QDiag("External Program Lookup Failed", "", FALSE)>>]
       ELSE IF ~started
       THEN [st EXCEPT !.pc = "done",
                       !.argv = filteredProgram,
                       !.diags = <<QDiag("External Program Execution Failed", "",
                                         kind # "dataSourceStringMap")>>]
       ELSE [st EXCEPT !.pc = "running",
                       !.argv = filteredProgram,
                       !.stdin = [sent |-> TRUE,
                                  doc |-> Marshal(FilteredQuery(kind, query))],
                       !.spawned = 1]

\* a handler that still parses the output of a program that failed
queryFinishParsingAnyway(st) ==
    LET parsed == st.out.raw = "json"
                  /\ (st.kind = "dataSource" \/ ~UnmarshalStringMap(st.out.doc).err)
        failed == IF st.status # 0
                  THEN <<QDiag("External Program Execution Failed", st.err,
                               st.err = "")>>
                  ELSE <<>>
    IN IF ~parsed
       THEN [st EXCEPT !.pc = "done",
                       !.diags = failed \o
                           <<QDiag("Unexpected External Program Results", "", FALSE)>>]
       ELSE [st EXCEPT !.pc = "done",
                       !.diags = failed,
                       !.result = IF st.kind = "dataSource"
                                  THEN convertJSONToDynamic(Unmarshal(st.out.doc))
                                  ELSE MapValueFrom(UnmarshalStringMap(st.out.doc)),
                       !.id = IF st.kind = "ephemeral" THEN "" ELSE "-"]

\* Read and Open after cmd.Output (part_009:228-286, part_010:322-389,
\* ephemeral.go:220-276)
queryFinish(st) ==
    IF st.status # 0
    THEN [st EXCEPT !.pc = "done",
                    !.diags = <<QDiag("External Program Execution Failed", st.err,
                                      st.err = "")>>]
    ELSE IF st.out.raw # "json"
            \/ (st.kind # "dataSource" /\ UnmarshalStringMap(st.out.doc).err)
    THEN [st EXCEPT !.pc = "done",
                    !.diags = <<QDiag("Unexpected External Program Results", "", FALSE)>>]
    ELSE [st EXCEPT !.pc = "done",
                    !.result = IF st.kind = "dataSource"
                               THEN convertJSONToDynamic(Unmarshal(st.out.doc))
                               ELSE MapValueFrom(UnmarshalStringMap(st.out.doc)),
                    !.id = IF st.kind = "ephemeral" THEN "" ELSE "-"]

\* the host engine calls a handler, which runs until cmd.Output waits for the
\* program or the handler returns: Read of the data source with the dynamic
\* result (part_009:99-286)
externalDataSourceRead ==
    /\ q.pc = "idle"
    /\ \E program \in ProgramLists, query \in Queries, started \in BOOLEAN :
         q' = queryStart("dataSource", program, query, started)
    /\ UNCHANGED <<seq, par>>

\* Read of the data source with the string-map result (part_010:221-389)
externalDataSourceReadStringMap ==
    /\ q.pc = "idle"
    /\ \E program \in ProgramLists, query \in Queries, started \in BOOLEAN :
         q' = queryStart("dataSourceStringMap", program, query, started)
    /\ UNCHANGED <<seq, par>>

\* Open of the ephemeral resource (ephemeral.go:91-276)
externalEphemeralResourceOpen ==
    /\ q.pc = "idle"
    /\ \E program \in ProgramLists, query \in Queries, started \in BOOLEAN :
         q' = queryStart("ephemeral", program, query, started)
    /\ UNCHANGED <<seq, par>>

\* what the program may write to its standard error
Stderrs == {"", "I was asked to fail"}

\* the program: it prints to its two streams and exits with a status
queryProgramRun ==
    /\ q.pc = "running"
    /\ \E out \in Stdouts, err \in Stderrs, status \in {0, 1} :
         q' = [q EXCEPT !.pc = "exited", !.out = out, !.err = err, !.status = status]
    /\ UNCHANGED <<seq, par>>

\* the host engine cancels the context of the handler while the program runs
queryContextCancel ==
    /\ q.pc = "running"
    /\ q.ctx = "live"
    /\ q' = [q EXCEPT !.ctx = "cancelled"]
    /\ UNCHANGED <<seq, par>>

\* a bridge with a deadline of its own: it kills the program whether or not
\* the context is done
queryProcessKillOnDeadline ==
    /\ q.pc = "running"
    /\ \E out \in Stdouts, err \in Stderrs, next \in {"exited", "blocked"} :
         q' = [q EXCEPT !.pc = next, !.out = out, !.err = err, !.status = 9]
    /\ UNCHANGED <<seq, par>>

\* exec.CommandContext (part_009:208, part_010:312, ephemeral.go:200) kills the
\* program when the context is done, whatever it has printed by then;
\* cmd.Output reads both streams through pipes and returns only when they are
\* closed, which a process the program started may delay (no cmd.WaitDelay)
queryProcessKill ==
    /\ q.pc = "running"
    /\ q.ctx = "cancelled"
    /\ \E out \in Stdouts, err \in Stderrs, next \in {"exited", "blocked"} :
         q' = [q EXCEPT !.pc = next, !.out = out, !.err = err, !.status = 9]
    /\ UNCHANGED <<seq, par>>

\* the last process that held the pipes of the program has ended
queryPipeClosed ==
    /\ q.pc = "blocked"
    /\ q' = [q EXCEPT !.pc = "exited"]
    /\ UNCHANGED <<seq, par>>

\* cmd.Output returns and the handler runs to its end
cmdOutput ==
    /\ q.pc = "exited"
    /\ q' = queryFinish(q)
    /\ UNCHANGED <<seq, par>>

\* the handler has returned
queryReturn ==
    /\ q.pc = "done"
    /\ q' = NoQuery
    /\ UNCHANGED <<seq, par>>

NextQuery ==
    \/ externalDataSourceRead
    \/ externalDataSourceReadStringMap
    \/ externalEphemeralResourceOpen
    \/ queryProgramRun
    \/ queryContextCancel
    \/ queryProcessKill
    \/ queryPipeClosed
    \/ cmdOutput
    \/ queryReturn

\* the stateless handlers read no attribute of the managed resource: its
\* configuration is the schema's default
DefaultConfig == [program_tmpdir |-> FALSE, program_tmpdir_keep |-> FALSE,
                  program_tmpdir_keep_on_error |-> FALSE,
                  program_output_combined |-> TRUE, program_create |-> FALSE,
                  commands |-> Commands(PlainCommand)]
InitQuery == Init /\ cfg = DefaultConfig

SpecQuery == InitQuery /\ [][NextQuery]_vars


\* ------------------------------------------------------------ properties
InTrace(x) == \E i \in 1..Len(trace) : trace[i] = x
\* the tags of the error-severity diagnostics the handler has so far
ErrorTags == {diags[i].tag : i \in {j \in 1..Len(diags) : diags[j].sev = "Error"}}
SetupTags == {"getwd", "mkdirall", "tempdir", "createFile"}
CommandTags == {"abs", "openFileForWriting", "start", "exit"}
\* the handler has returned to the host engine
Returned == pc = "done"
ReadBack == InTrace("storeId") \/ InTrace("storeAttributes")
Closed == InTrace("closeDir:kept") \/ InTrace("closeDir:failed")
          \/ InTrace("closeDir:removed")

\* C1: for every verb, when directory setup or the command yields an error
\* diagnostic, no read-back runs in that invocation and state, output and
\* output_sensitive keep the values they had when the handler was entered,
\* also when create falls back to program_update
C1_ErrorAbortsLaterSteps ==
    (Returned /\ ErrorTags \cap (SetupTags \cup CommandTags) # {})
    => /\ ~ReadBack
       /\ data.state = pre.state
       /\ data.output = pre.output
       /\ data.output_sensitive = pre.output_sensitive

\* C2: for every verb, when the handler returns the interchange directory it
\* opened exists exactly when program_tmpdir_keep is set, or
\* program_tmpdir_keep_on_error is set and the invocation produced an error
\* diagnostic (stated for the invocations whose close step ran and whose
\* removal did not itself fail)
C2_RemovedUnlessRetained ==
    (Returned /\ Closed /\ ~InTrace("closeDir:failed"))
    => ((opened \in dirs)
        <=> (cfg.program_tmpdir_keep
             \/ (cfg.program_tmpdir_keep_on_error /\ HasError(diags))))

\* C3: on every exit path of every verb, once the interchange directory has
\* been created the close step has run when the handler returns
C3_CloseOnEveryPath ==
    (Returned /\ opened # "") => Closed

\* the positions of a step in the trace
At(names) == {i \in 1..Len(trace) : trace[i] \in names}
ReadBackSteps == {"storeId", "storeAttributes"}
CloseSteps == {"closeDir:none", "closeDir:kept", "closeDir:failed", "closeDir:removed"}

\* C4: within one invocation the command is launched only after openDir has
\* written every managed file, read-back starts only after executeCommand has
\* returned and the launched command has exited, and the close step comes
\* only after the last read-back step
C4_StepOrder ==
    /\ \A i \in At({"exec:start"}) :
         /\ \E j \in At({"openDir:ok"}) : j < i
         /\ \A f \in Range(p.names) :
              atLaunch[f].exists /\ atLaunch[f].content = p.files[f]
    /\ \A i \in At(ReadBackSteps) :
         /\ \E j \in At({"exec:wait", "exec:failed"}) : j < i
         /\ \A j \in At({"exec:start"}) :
              j < i /\ \E k \in At({"program:exit"}) : j < k /\ k < i
    /\ \A i \in At(CloseSteps) : \A j \in At(ReadBackSteps) : j < i
    /\ \A i \in At({"closeDir:removed"}) : \A j \in At({"exec:start"}) :
         j < i /\ \E k \in At({"program:exit"}) : j < k /\ k < i

C4_Witness ==
    /\ Returned
    /\ verb = "read"
    /\ trace = <<"openDir:ok", "exec:start", "program:exit", "exec:wait",
                 "storeId", "storeAttributes", "closeDir:removed">>

\* the command each verb is meant to launch
C5_Expected ==
    CASE verb = "create" -> IF cfg.program_create THEN "program_create"
                            ELSE "program_update"
      [] verb = "read" -> "program_read"
      [] verb = "update" -> "program_update"
      [] verb = "delete" -> "program_delete"
      [] OTHER -> ""

\* C5: an invocation launches at most one command, exactly one once its
\* directory is set up and the launch does not fail; create launches
\* program_create when configured and program_update otherwise, with the
\* TF_EXTERNAL_* environment and managed files of an update; read, update and
\* delete launch only their own command
C5_OneCommand ==
    /\ Len(launched) <= 1
    /\ Len(launched) = Cardinality(At({"exec:start"}))
    /\ (Returned /\ ErrorTags \cap (SetupTags \cup {"abs", "openFileForWriting", "start"}) = {})
       => Len(launched) = 1
    /\ \A i \in 1..Len(launched) :
         /\ launched[i].key = C5_Expected
         /\ launched[i].env.TF_EXTERNAL_DIR = opened
         /\ launched[i].env.TF_EXTERNAL_DIR_ABS = "/cwd/" \o opened
         /\ verb \in {"create", "update"} =>
              launched[i].env.TF_EXTERNAL_MANAGED_FILES =
                {"provider_input", "input", "input_sensitive", "output",
                 "output_sensitive", "state", "old_state", "id"}
                \cup (IF cfg.program_output_combined THEN {"stdall"}
                      ELSE {"stdout", "stderr"})

C5_Witness ==
    /\ Returned
    /\ verb = "create"
    /\ ~cfg.program_create
    /\ Len(launched) = 1
    /\ launched[1].key = "program_update"
    /\ exit = 0

\* the command of a create exited with status 0 and left the id file empty or
\* absent
C6_Case ==
    /\ Returned
    /\ verb = "create"
    /\ InTrace("exec:wait")
    /\ exit = 0
    /\ atExit["id"].content = ""

ReadOK(f) == ErrorTags \cap {k \o ":" \o f : k \in {"chmod", "read", "restore"}} = {}

\* the read command exited with status 0, left the id file empty, and the
\* file could be read
C7_Case ==
    /\ Returned
    /\ verb = "read"
    /\ InTrace("exec:wait")
    /\ exit = 0
    /\ atExit["id"].exists
    /\ atExit["id"].content = ""
    /\ ReadOK("id")

\* C7: a read whose command succeeds and leaves the id file empty ends with
\* an empty id, whatever the state, output and output_sensitive files hold
C7_ReadClearsId ==
    C7_Case => data.id = ""

C7_Witness ==
    /\ C7_Case
    /\ pre.id = "abc"
    /\ data.id = ""
    /\ atExit["state"].content = "new"
    /\ atExit["output"].content = "out"

\* C8: after any delete the id is empty, whether the command exited zero or
\* nonzero, failed to launch, or wrote the id file; a nonzero exit is among the
\* error diagnostics returned
C8_DeleteClearsId ==
    (Returned /\ verb = "delete") =>
      /\ data.id = ""
      /\ (InTrace("exec:wait") /\ exit # 0) => "exit" \in ErrorTags

C8_Witness ==
    /\ Returned
    /\ verb = "delete"
    /\ InTrace("exec:wait")
    /\ exit = 1
    /\ atExit["id"].content = "abc"
    /\ pre.id = "abc"
    /\ data.id = ""

\* a create, read or update returned without an error diagnostic
C9_Case ==
    /\ Returned
    /\ verb \in {"create", "read", "update"}
    /\ InTrace("exec:wait")
    /\ ~HasError(diags)

\* C9: after a successful create, read or update the id and the state, output
\* and output_sensitive attributes equal the contents of their files as the
\* command left them at exit
C9_ReadBackEqualsFiles ==
    C9_Case =>
      /\ data.id = atExit["id"].content
      /\ data.state = atExit["state"].content
      /\ data.output = atExit["output"].content
      /\ data.output_sensitive = atExit["output_sensitive"].content

C9_Witness ==
    /\ C9_Case
    /\ verb = "read"
    /\ pre.state = "old"
    /\ atLaunch["old_state"].content = "old"
    /\ atExit["id"].content = "abc"
    /\ atExit["state"].content = "new"
    /\ data.id = "abc"
    /\ data.state = "new"

\* C10: a file among id, state, output, output_sensitive that the command left
\* as it was seeded is read back as the value the handler was entered with
\* (delete clears the id afterwards)
C10_UnmodifiedRoundTrip ==
    (Returned /\ InTrace("program:exit")) =>
      /\ \A f \in {"state", "output", "output_sensitive"} :
           (InTrace("storeAttributes") /\ atExit[f] = atLaunch[f] /\ ReadOK(f))
           => data[f] = pre[f]
      /\ (verb # "delete" /\ InTrace("storeId") /\ atExit["id"] = atLaunch["id"]
          /\ ReadOK("id"))
         => data.id = pre.id

C10_Witness ==
    /\ Returned
    /\ verb = "create"
    /\ pre.state = "old"
    /\ InTrace("storeAttributes")
    /\ atExit["state"] = atLaunch["state"]
    /\ atExit["id"].content = "abc"
    /\ data.state = "old"

\* C11: with the acceptance test's program, every create, read and update
\* that returns without error leaves state equal to the state the handler was
\* entered with (the configured one for create and update, the stored one for
\* read, so a sequence create(S), read, read, ... keeps S and update(S'), read
\* keeps S'), with id and output equal to the input throughout
C11_StateRoundTrip ==
    (Returned /\ verb \in {"create", "read", "update"} /\ ~HasError(diags)) =>
      /\ data.state = pre.state
      /\ data.state = store
      /\ data.output = Input
      /\ data.id = Input

C11_Witness ==
    /\ Returned
    /\ verb = "read"
    /\ ~HasError(diags)
    /\ pre.state = "new"
    /\ atLaunch["state"].content = "new"
    /\ data.state = "new"
    /\ data.output = Input

\* a command has been launched in this invocation
Launched == Len(launched) >= 1
\* the files the protocol names, and the capture files of the configuration
ProtocolFiles == {"input", "input_sensitive", "id", "state", "old_state",
                  "output", "output_sensitive"}
CaptureFiles == IF cfg.program_output_combined THEN {"stdall"}
                ELSE {"stdout", "stderr"}

\* C12: whenever the command is launched, every managed file (the seven
\* protocol files and the capture file or files) exists in the interchange
\* directory with the seeded value, an empty file when the value is empty
C12_AllFilesExistAtLaunch ==
    Launched =>
      \A f \in ProtocolFiles \cup CaptureFiles :
        /\ atLaunch[f].exists
        /\ atLaunch[f].content = p.files[f]

\* C13: when the command is launched, in every invocation, input,
\* input_sensitive and old_state have mode 0400, id and state mode 0600,
\* output and output_sensitive mode 0200
C13_ModesAtLaunch ==
    Launched =>
      /\ \A f \in {"input", "input_sensitive", "old_state"} :
           atLaunch[f].exists /\ atLaunch[f].mode = 256
      /\ \A f \in {"id", "state"} :
           atLaunch[f].exists /\ atLaunch[f].mode = 384
      /\ \A f \in {"output", "output_sensitive"} :
           atLaunch[f].exists /\ atLaunch[f].mode = 128

C13_Witness ==
    /\ pc = "running"
    /\ verb = "update"
    /\ atLaunch["output"].content = "out"
    /\ atLaunch["output"].mode = 128
    /\ atLaunch["old_state"].mode = 256
    /\ atLaunch["id"].mode = 384

\* the handler returned after reading the attributes back and kept the
\* directory, so the files are as read-back left them
C14_Case ==
    /\ Returned
    /\ InTrace("storeAttributes")
    /\ InTrace("closeDir:kept")

\* C14: read-back of a file the owner may not read (output, output_sensitive
\* at 0200) returns the file's content, and the file has its original mode
\* again afterwards, also when reading the content failed (unless the chmod
\* that restores the mode itself failed)
C14_ReadBackRestoresMode ==
    C14_Case =>
      \A f \in {"output", "output_sensitive"} :
        (atExit[f].exists /\ atExit[f].mode = 128) =>
          /\ ReadOK(f) => data[f] = atExit[f].content
          /\ ("restore:" \o f) \notin ErrorTags => disk[f] = atExit[f]

C14_Witness ==
    /\ C14_Case
    /\ atExit["output"].content = "out"
    /\ atExit["output"].mode = 128
    /\ "read:output" \in ErrorTags
    /\ disk["output"].mode = 128
    /\ data.output_sensitive = "out-secret"

\* C15: an invocation that uses a pinned program_tmpdir, whether the
\* directory is absent, empty or holds the files of an earlier retained
\* invocation, opens it without error (no filesystem call having failed for
\* another reason) and launches the command with every managed file holding
\* exactly the value seeded for this invocation
C15_PinnedDirReopens ==
    (cfg.program_tmpdir /\ verb \in Verbs /\ faults = 0) =>
      /\ InTrace("openDir:ok")
      /\ Launched
      /\ \A f \in Range(p.names) :
           atLaunch[f].exists /\ atLaunch[f].content = p.files[f]

\* C16: when program_tmpdir is not pinned, no two invocations that run side
\* by side use the same interchange directory, a directory an invocation
\* opens holds no file of an earlier one, read-back sees only files written
\* by the invocation's own open step and command, and no close removes the
\* directory of another invocation
C16_OwnDirectory ==
    ~cfg.program_tmpdir =>
      /\ \A i, j \in Procs :
           (i # j /\ Active(i) /\ Active(j)) => par.inv[i].dir # par.inv[j].dir
      /\ \A i \in Procs :
           Active(i) => /\ par.fs[par.inv[i].dir].exists
                        /\ par.inv[i].pc = "made" =>
                             par.fs[par.inv[i].dir].writers = {}
                        /\ par.fs[par.inv[i].dir].writers \subseteq {i}
                        /\ par.inv[i].seen \subseteq {i}

C16_Witness ==
    /\ ~cfg.program_tmpdir
    /\ cfg.program_tmpdir_keep
    /\ par.inv[1].pc = "read"
    /\ par.inv[1].seen = {1}
    /\ par.inv[2].pc = "executed"
    /\ par.inv[2].dir # par.inv[1].dir
    /\ Cardinality(ExistingDirs) = 2

\* C17: the environment given to the command is the provider process's
\* environment plus TF_EXTERNAL_DIR (the directory as opened),
\* TF_EXTERNAL_DIR_ABS (its absolute form) and TF_EXTERNAL_MANAGED_FILES,
\* naming files open wrote for this invocation, and exactly the files of the
\* directory when open made the directory itself; when the
\* absolute path cannot be resolved an error is returned and no command is
\* launched
C17_Environment ==
    /\ \A i \in 1..Len(launched) :
         /\ launched[i].env.inherited = {"PATH=/usr/bin", "HOME=/root"}
         /\ launched[i].env.TF_EXTERNAL_DIR = opened
         /\ opened # ""
         /\ launched[i].env.TF_EXTERNAL_DIR_ABS = "/cwd/" \o opened
         /\ \A f \in launched[i].env.TF_EXTERNAL_MANAGED_FILES :
              atLaunch[f].exists /\ atLaunch[f].content = p.files[f]
         /\ ~cfg.program_tmpdir =>
              launched[i].env.TF_EXTERNAL_MANAGED_FILES
                = {f \in AllFiles : atLaunch[f].exists}
    /\ "abs" \in ErrorTags => ~Launched

C17_Witness ==
    /\ pc = "running"
    /\ verb = "read"
    /\ ~cfg.program_output_combined
    /\ launched[1].env.TF_EXTERNAL_DIR = "tmp1"
    /\ "stdout" \in launched[1].env.TF_EXTERNAL_MANAGED_FILES
    /\ atLaunch["stdout"].exists

\* how often a diagnostic occurs in a list of diagnostics
Count(ds, d) == Cardinality({i \in 1..Len(ds) : ds[i] = d})

\* C18: the diagnostics a verb returns contain every diagnostic every step
\* that ran produced, as often as it was produced, and nothing else: a cleanup
\* warning after an error is there, and so is every earlier error and warning
C18_AllDiagnosticsReturned ==
    Returned =>
      /\ Len(diags) = Len(emitted)
      /\ \A i \in 1..Len(emitted) : Count(diags, emitted[i]) = Count(emitted, emitted[i])

C18_Witness ==
    /\ Returned
    /\ verb = "update"
    /\ exit = 1
    /\ InTrace("closeDir:failed")
    /\ emitted = <<Diag("Warning", "output"), Diag("Error", "exit"),
                   Diag("Warning", "removeAll")>>
    /\ diags = emitted

\* C19: a failure to remove the directory adds one warning and no error: an
\* invocation without error diagnostics returns its read-back id and
\* attributes as the files held them, and one that failed keeps exactly the
\* error diagnostics it had
C19_Case ==
    /\ Returned
    /\ InTrace("closeDir:failed")

C19_CleanupFailureIsWarning ==
    C19_Case =>
      /\ diags[Len(diags)] = Diag("Warning", "removeAll")
      /\ "removeAll" \notin ErrorTags
      /\ HasError(diags) <=> HasError(SubSeq(diags, 1, Len(diags) - 1))
      /\ (~HasError(diags) /\ verb \in {"create", "read", "update"}) =>
           /\ data.id = atExit["id"].content
           /\ \A a \in {"state", "output", "output_sensitive"} :
                data[a] = atExit[a].content

C19_Witness ==
    /\ C19_Case
    /\ verb = "read"
    /\ ~HasError(diags)
    /\ atExit["state"].content = "new"
    /\ data.state = "new"
    /\ data.id = "abc"
    /\ opened \in dirs

\* the command exited nonzero, or could not be started
C20_Case ==
    /\ Returned
    /\ \/ InTrace("exec:wait") /\ exit # 0
       \/ "start" \in ErrorTags

\* the whole of what the command wrote, combined or as stdout and stderr
C20_CompleteOutput ==
    {printed.stdout \o printed.stderr,
     "=== STDOUT ===\n" \o printed.stdout \o "=== STDERR ===\n" \o printed.stderr}

\* C20: when the command exits nonzero or cannot be launched, executeCommand
\* returns an error diagnostic that names the command line and carries the
\* exit or launch error, and for a nonzero exit holds everything the command
\* wrote to its output, combined or as stdout and stderr
C20_ErrorCarriesOutput ==
    C20_Case =>
      /\ ErrorTags \cap {"exit", "start"} # {}
      /\ report.command = C5_Expected
      /\ report.error \in {"exit", "start"}
      /\ exit # 0 => report.output \in C20_CompleteOutput

\* ---------------------------------------------------------------- C29
\* the files read back, and the step of the handler that reads each
ReadBackFiles == {"id", "state", "output", "output_sensitive"}
ReadBackOf(f) == IF f = "id" THEN InTrace("storeId") ELSE InTrace("storeAttributes")
\* the command ran, removed the file, and the handler read the file back
C29_Case(f) ==
    /\ Returned
    /\ InTrace("program:exit")
    /\ ~atExit[f].exists
    /\ ReadBackOf(f)

\* C29: a managed file that no longer exists at read-back gives exactly one
\* diagnostic for that file, of warning severity, and empty content: the id
\* (for the id file) or the attribute (for state, output, output_sensitive) is
\* set to the empty string, and the invocation does not fail because of it
\* (when the command exited with 0 and nothing else failed, no diagnostic of
\* the invocation is an error).
C29_VanishedFileIsWarning ==
    \A f \in ReadBackFiles :
        C29_Case(f) =>
            /\ Count(emitted, Diag("Warning", "stat:" \o f)) = 1
            /\ Count(diags, Diag("Warning", "stat:" \o f)) = 1
            /\ \A i \in 1..Len(diags) :
                   diags[i].sev = "Error" =>
                       diags[i].tag \notin {k \o ":" \o f :
                                              k \in {"stat", "chmod", "read", "restore"}}
            /\ (IF f = "id" THEN data.id ELSE data[f]) = ""
            /\ (exit = 0 /\ faults = 0) => ~HasError(diags)

\* a read whose command removed id and output and exited with 0: the stored id
\* was not empty, the handler returned without an error, and state was read back
C29_Witness ==
    /\ C29_Case("id")
    /\ C29_Case("output")
    /\ verb = "read"
    /\ pre.id # ""
    /\ pre.output # ""
    /\ exit = 0
    /\ atExit["state"].exists
    /\ data.state = atExit["state"].content
    /\ ~HasError(diags)

\* ---------------------------------------------------------------- C30
\* C30: when a command is started, the state file holds the planned state and
\* old_state the prior state, and the id file the id the host engine held when
\* it invoked the verb, which is the id the previous invocation left.  On read
\* (and delete) state and old_state both equal the stored state; on update
\* old_state equals the stored state and state the newly configured value; on
\* create old_state and id are empty.
C30_SeededStates ==
    Launched =>
        /\ atLaunch["state"].exists /\ atLaunch["old_state"].exists
        /\ atLaunch["id"].exists
        /\ atLaunch["state"].content = pre.state
        /\ atLaunch["id"].content = stored.id
        /\ verb \in {"read", "delete"} =>
               /\ atLaunch["state"].content = stored.state
               /\ atLaunch["old_state"].content = stored.state
        /\ verb = "update" => atLaunch["old_state"].content = stored.state
        /\ verb = "create" =>
               /\ atLaunch["old_state"].content = ""
               /\ atLaunch["id"].content = ""

\* an update that changes the state: the resource was created with state
\* "old" and id "abc", the command of the update finds "new" in state, "old" in
\* old_state and "abc" in id
C30_Witness ==
    /\ Launched
    /\ verb = "update"
    /\ stored.id = "abc"
    /\ stored.state = "old"
    /\ pre.state = "new"
    /\ atLaunch["state"].content = "new"
    /\ atLaunch["old_state"].content = "old"
    /\ atLaunch["id"].content = "abc"

\* ---------------------------------------------------------------- C22
\* a handler of the stateless protocol has been called and has not returned
Called == q.pc # "idle"
\* the places of the program list that hold a string that is not empty
NonEmptyAt(program) ==
    {i \in 1..Len(program) : ~program[i].null /\ program[i].s # ""}
\* the n-th smallest element of a set of numbers
RECURSIVE Nth(_, _)
Nth(S, n) ==
    LET m == CHOOSE x \in S : \A y \in S : x <= y
    IN IF n = 1 THEN m ELSE Nth(S \ {m}, n - 1)

\* C22: in the stateless protocol the null and the empty-string elements of
\* the program list are removed first.  A list with no other element gives
\* exactly the error 'External Program Missing' and no process is spawned; a
\* list with one gives no such error, and a process that is spawned has the
\* remaining elements in their original order as its command vector (the first
\* is the executable) and no empty string among them.
C22_ProgramFiltered ==
    Called =>
        LET at == NonEmptyAt(q.program)
        IN /\ at = {} =>
                 /\ q.pc = "done"
                 /\ q.spawned = 0
                 /\ q.diags = <<QDiag("External Program Missing", "", FALSE)>>
           /\ at # {} =>
                 /\ \A i \in 1..Len(q.diags) :
                        q.diags[i].summary # "External Program Missing"
                 /\ q.spawned = 1 =>
                        /\ Len(q.argv) = Cardinality(at)
                        /\ \A j \in 1..Len(q.argv) :
                               /\ q.argv[j] = q.program[Nth(at, j)].s
                               /\ q.argv[j] # ""

\* a list with nulls and no empty string before and between its strings: the
\* program runs with the three strings in their order
C22_Witness ==
    /\ q.pc = "running"
    /\ q.spawned = 1
    /\ q.program = <<StringNull, StringValue("prog"), StringNull,
                     StringValue("arg2"), StringValue("arg1")>>
    /\ q.argv = <<"prog", "arg2", "arg1">>

\* ---------------------------------------------------------------- C24
\* the keys of the query whose value is not null
NonNullKeys(query) ==
    IF query.null THEN {} ELSE {k \in DOMAIN query.elems : ~query.elems[k].null}
\* the document is a JSON object with exactly the entries of the query whose
\* value is not null, each once and with its string
SendsNonNull(doc, query) ==
    /\ doc.t = "obj"
    /\ {doc.c[i].key : i \in 1..Len(doc.c)} = NonNullKeys(query)
    /\ \A i, j \in 1..Len(doc.c) : doc.c[i].key = doc.c[j].key => i = j
    /\ \A i \in 1..Len(doc.c) : doc.c[i].val = JStr(query.elems[doc.c[i].key].s)

\* C24: in the stateless protocol the JSON object sent on the program's input
\* contains exactly the query entries whose value is not null: a key with a
\* null value is omitted, a key with the empty string is sent with an explicit
\* empty string.
C24_NullQueryEntriesOmitted ==
    q.stdin.sent => SendsNonNull(q.stdin.doc, q.query)

\* ---------------------------------------------------------------- C25
\* the program of the invocation exited with a status other than zero and the
\* handler has run to its end
C25_Case == q.pc = "done" /\ q.spawned = 1 /\ q.status > 0

C27_Case == q.pc = "done" /\ q.spawned = 1 /\ q.status = 0
\* a JSON object all of whose values are strings
FlatStringObject(doc) ==
    doc.t = "obj" /\ \A i \in 1..Len(doc.c) : doc.c[i].val.t = "str"
\* the output parses under the contract of the handler: JSON for the dynamic
\* result, a flat object of strings for the string-map result
ParsesUnderContract(kind, out) ==
    /\ out.raw = "json"
    /\ kind # "dataSource" => FlatStringObject(out.doc)

\* C27: in the stateless protocol with exit status zero, output that does not
\* parse under the contract of the handler gives exactly the error 'Unexpected
\* External Program Results' and sets neither result nor id; output that
\* parses gives no diagnostic, sets result, and sets the id of a data source
\* to "-".
C27_OutputParsedUnderContract ==
    C27_Case =>
        IF ParsesUnderContract(q.kind, q.out)
        THEN /\ q.diags = <<>>
             /\ q.result # NoResult
             /\ q.kind # "ephemeral" => q.id = "-"
        ELSE /\ q.diags = <<QDiag("Unexpected External Program Results", "", FALSE)>>
             /\ q.result = NoResult
             /\ q.id = ""

\* ---------------------------------------------------------------- C28
\* the value v of the dynamic result has the structure and the leaves of the
\* document d
RECURSIVE Preserves(_, _)
Preserves(d, v) ==
    CASE d.t = "null" -> v.k = "DynamicNull"
      [] d.t = "bool" -> v.k = "Bool" /\ v.s = d.s
      [] d.t = "num" -> v.k = "Number" /\ v.n = d.n
      [] d.t = "str" -> v.k = "String" /\ v.s = d.s
      [] d.t = "arr" ->
           /\ v.k = "Tuple"
           /\ Len(v.c) = Len(d.c)
           /\ \A i \in 1..Len(d.c) : Preserves(d.c[i].val, v.c[i].val)
      [] OTHER ->
           /\ v.k = "Object"
           /\ Len(v.c) = Len(d.c)
           /\ {v.c[i].key : i \in 1..Len(v.c)} = {d.c[i].key : i \in 1..Len(d.c)}
           /\ \A i \in 1..Len(d.c) : \A j \in 1..Len(v.c) :
                  v.c[j].key = d.c[i].key => Preserves(d.c[i].val, v.c[j].val)
\* the keys of a result and the string each of them gives
Entries(v) == {<<v.c[i].key, v.c[i].val.k, v.c[i].val.s>> : i \in 1..Len(v.c)}
\* a data source with the dynamic result has parsed the output of its program
C28_Case ==
    /\ q.pc = "done" /\ q.kind = "dataSource"
    /\ q.spawned = 1 /\ q.status = 0 /\ q.out.raw = "json"

\* C28: for a program output that is a flat JSON object of string values the
\* dynamic result has exactly the keys and the string values of the string-map
\* result for the same output; for every output the conversion keeps the key
\* set of every object, the length and the order of every array, and every
\* boolean, number, string and null leaf.
C28_ConversionPreserves ==
    C28_Case =>
        /\ Preserves(q.out.doc, q.result)
        /\ FlatStringObject(q.out.doc) =>
               Entries(q.result) =
                   Entries(MapValueFrom(UnmarshalStringMap(q.out.doc)))

\* ---------------------------------------------------------------- C23
\* the first element of a command vector that is not the empty string
FirstNonEmpty(vector) ==
    vector[Nth({i \in 1..Len(vector) : vector[i] # ""}, 1)]

\* C23: for every lifecycle command vector the empty-string elements are
\* dropped before the executable is resolved: no command is started with an
\* empty string in its vector (as the program or as an argument), and a
\* failed resolution is that of the first element that is not empty.
C23_EmptyElementsDropped ==
    /\ \A i \in 1..Len(launched) :
           \A j \in 1..Len(launched[i].argv) : launched[i].argv[j] # ""
    /\ report.error \in {"ErrNotFound", "ErrDot"} =>
           report.error = LookPath(FirstNonEmpty(getArgs(cfg, report.command)))

\* ---------------------------------------------------------------- C26
\* executeCommand was reached in this invocation and no call was made to fail
C26_Case ==
    /\ InTrace("exec:start") \/ InTrace("exec:failed")
    /\ faults = 0
\* the resolution of the executable of the command this invocation runs
C26_Resolution == LookPath(getArgs(cfg, C5_Expected)[1])

\* C26: if the executable named by the first element of the command vector
\* cannot be resolved, the invocation fails with an error that carries the
\* failed lookup and no process is started; a resolution that fails only
\* because the program was found through a relative PATH entry counts as
\* success, and the program is started.
C26_LookupFailure ==
    C26_Case =>
        /\ C26_Resolution = "ErrNotFound" =>
               /\ launched = <<>>
               /\ HasError(diags)
               /\ report.error = "ErrNotFound"
        /\ C26_Resolution \in {"nil", "ErrDot"} =>
               /\ Len(launched) = 1
               /\ launched[1].argv[1] = getArgs(cfg, C5_Expected)[1]

\* ---------------------------------------------------------------- C21
\* the context was cancelled while the command ran, and the command was killed
Killed == ctx = "cancelled" /\ InTrace("program:killed")

\* C21: when the context is cancelled while the command runs and the command
\* is killed, the handler returns with an error diagnostic, and the close
\* step has run under the retention policy: the directory exists afterwards
\* exactly when program_tmpdir_keep is set, or program_tmpdir_keep_on_error is
\* set (the invocation has an error), unless the removal itself failed.
C21_CancelledInvocation ==
    (Returned /\ Killed) =>
        /\ HasError(diags)
        /\ Closed
        /\ ~InTrace("closeDir:failed") =>
               ((opened \in dirs)
                <=> (cfg.program_tmpdir_keep \/ cfg.program_tmpdir_keep_on_error))

\* an invocation whose context is cancelled while its command runs returns
CancelledReturns == (ctx = "cancelled" /\ pc = "running") ~> Returned

\* ---------------------------------------------------------------- C31
\* the tags of the diagnostics that reading a managed file back can give
ReadBackTags ==
    {k \o ":" \o f : k \in {"stat", "chmod", "read", "restore"}, f \in ReadBackFiles}

\* C31: a delete opens the directory, runs program_delete and closes the
\* directory without reading id, state, output or output_sensitive back: no
\* read-back step is in its trace and none of its diagnostics comes from
\* reading one of those files, so what the command left in them or removed
\* cannot change the outcome of delete.
C31_DeleteReadsNothingBack ==
    (Returned /\ verb = "delete") =>
        /\ ~ReadBack
        /\ \A i \in 1..Len(diags) : diags[i].tag \notin ReadBackTags

\* ---------------------------------------------------------------- C32
\* writing a managed file failed while the directory was opened
C32_Case == InTrace("openDir:partial")
\* the managed files that exist
Existing == {f \in AllFiles : disk[f].exists}
\* the sets of files a loop can have written when it stops at a failed write:
\* the files before some position of an order of the map
WrittenBeforeFailure ==
    {{Rotate(p.names, r)[i] : i \in 1..(k - 1)} :
       r \in 0..(NumOrders - 1), k \in 1..Len(p.names)}

\* C32: if writing a managed file fails during open, open returns that error
\* first, once, no command is executed in the invocation and nothing is read
\* back; in a temporary directory that is left in place the files that exist are
\* those written before the failure, and none after it.
C32_OpenStopsAtFirstError ==
    C32_Case =>
        /\ diags[1] = Diag("Error", "createFile")
        /\ Count(emitted, Diag("Error", "createFile")) = 1
        /\ launched = <<>>
        /\ ~InTrace("exec:start") /\ ~InTrace("exec:failed")
        /\ ~InTrace("program:exit")
        /\ ~ReadBack
        /\ (~cfg.program_tmpdir /\ opened \in dirs) => Existing \in WrittenBeforeFailure

\* a read whose second file could not be written, with the directory kept on
\* error: the handler returned and one file exists
C32_Witness ==
    /\ C32_Case
    /\ Returned
    /\ verb = "read"
    /\ cfg.program_tmpdir_keep_on_error
    /\ ~cfg.program_tmpdir
    /\ opened \in dirs
    /\ Cardinality(Existing) = 1
    /\ launched = <<>>


\* another value for input_sensitive and output_sensitive
OtherSecret == "other-secret"
SensitiveFiles == {"input_sensitive", "output_sensitive"}
\* the handler's state with the other sensitive value: as configured, as
\* stored, and in the files that hold it
WithSecret(st, v) ==
    [st EXCEPT !.p.files = [f \in AllFiles |->
                              IF f \in SensitiveFiles THEN v ELSE st.p.files[f]],
               !.data.output_sensitive = v,
               !.disk = [f \in AllFiles |->
                           IF f \in SensitiveFiles /\ st.disk[f].exists
                           THEN [st.disk[f] EXCEPT !.content = v]
                           ELSE st.disk[f]]]
\* the handler's state when it is entered with verb v, data d and program prog
Entered(v, d, prog) ==
    [verb |-> v, pc |-> "openDir", data |-> d, p |-> prog,
     diags |-> <<>>, local |-> <<>>, dirs |-> dirs, disk |-> disk,
     faults |-> 0, exit |-> -1, trace |-> <<>>, launched |-> <<>>,
     atLaunch |-> EmptyDisk, opened |-> "", emitted |-> <<>>,
     printed |-> NoOutput, report |-> NoReport]
\* the states from which a handler runs on: entered by the host engine, or
\* resumed when the command has exited
Resumptions ==
    IF pc = "exited"
    THEN {[verb |-> verb, pc |-> "wait", data |-> data, p |-> p,
           diags |-> diags, local |-> <<>>, dirs |-> dirs, disk |-> disk,
           faults |-> faults, exit |-> exit, trace |-> trace,
           launched |-> launched, atLaunch |-> atLaunch, opened |-> opened,
           emitted |-> emitted, printed |-> printed, report |-> report]}
    ELSE IF pc # "idle" \/ ~CanOpen THEN {}
    ELSE IF data.id = ""
    THEN {Entered("create",
                  [id |-> "", state |-> s, output |-> "", output_sensitive |-> ""],
                  Program(cfg, [id |-> "", state |-> s, output |-> "",
                                output_sensitive |-> ""], "", s)) : s \in CreateStates}
    ELSE {Entered("read", data, Program(cfg, data, data.state, data.state)),
          Entered("delete", data, ProgramRunProgram(cfg, data, data.state, data.state))}
         \cup {Entered("update", [data EXCEPT !.state = s],
                       Program(cfg, [data EXCEPT !.state = s], data.state, s)) :
                 s \in UpdateStates \cup {data.state}}
\* what the handler hands back and logs: its diagnostics, in order, with what
\* the error diagnostic of executeCommand carries, and where it stopped
Diagnostics(S) ==
    {[diags |-> e.diags, emitted |-> e.emitted, report |-> e.report, pc |-> e.pc,
      launched |-> [i \in 1..Len(e.launched) |-> e.launched[i].argv]] : e \in S}

\* C33: an invocation returns the same diagnostics whatever input_sensitive
\* and output_sensitive hold: from every point at which a handler runs on
\* (entered with any verb, or resumed after the command exited with the same
\* status and captured output), the handler run with another sensitive value
\* configured, stored and in the two files produces the same diagnostics, the
\* same error report and the same command lines
C33_SensitiveNotInDiagnostics ==
    \A st \in Resumptions :
        Diagnostics(run({st}, cfg)) = Diagnostics(run({WithSecret(st, OtherSecret)}, cfg))
\* an invocation returned with the output of a failed command reported, while
\* the sensitive input was in its file and a sensitive output was stored
C33_Witness ==
    /\ Returned /\ verb = "update"
    /\ \E i \in 1..Len(diags) : diags[i] = Diag("Error", "exit")
    /\ report.output # ""
    /\ atLaunch["input_sensitive"].content = InputSensitive
    /\ atExit["output_sensitive"].content = "out-secret"
    /\ pre.output_sensitive = "out-secret"

\* executeCommand got as far as starting the command: the command ran, or
\* cmd.Start failed
C34_Case == Returned /\ (Launched \/ "start" \in ErrorTags)
\* C34: every execution of a command emits the diagnostic that carries the
\* command line and the captured output ("Combined output (n bytes) of ..."),
\* whether the command succeeded, exited nonzero or failed to launch
C34_OutputDiagnosticAlways ==
    C34_Case => Count(emitted, Diag("Warning", "output")) >= 1

\* the handler returned from a program it started, and the context of the
\* invocation was never cancelled
C35_Case == q.pc = "done" /\ q.spawned = 1 /\ q.ctx = "live"
\* C35: the bridge never ends a running program on its own.  A program is
\* killed, or the handler left waiting on its pipes, only when the context of
\* the invocation has been cancelled; with a live context, while the program
\* runs the handler only waits, and once it has exited the handler reports
\* from the program's own exit status and output: a program that exits 0
\* without output fails with "Unexpected External Program Results", one that
\* exits nonzero with "External Program Execution Failed" and its stderr
C35_OnlyCancellationEndsProgram ==
    /\ (q.status = 9 \/ q.pc = "blocked") => q.ctx = "cancelled"
    /\ (q.pc = "running" /\ q.ctx = "live") => (q.status = -1 /\ q.diags = <<>>)
    /\ C35_Case =>
         /\ q.status \in {0, 1}
         /\ (q.status = 0 /\ q.out.raw = "empty") =>
               q.diags = <<QDiag("Unexpected External Program Results", "", FALSE)>>
         /\ q.status = 1 =>
               q.diags = <<QDiag("External Program Execution Failed", q.err, q.err = "")>>
\* a program that ran with a live context, exited 0 and printed nothing
C35_Witness ==
    /\ C35_Case /\ q.kind = "dataSource"
    /\ q.status = 0 /\ q.out.raw = "empty"
    /\ q.diags = <<QDiag("Unexpected External Program Results", "", FALSE)>>

\* close ran on the pinned directory of this invocation, neither retention
\* condition applied and os.RemoveAll did not fail
C36_Case ==
    /\ Returned /\ Closed
    /\ cfg.program_tmpdir /\ opened = PinnedDir
    /\ ~Retained(cfg, HasError(diags))
    /\ Count(emitted, Diag("Warning", "removeAll")) = 0
\* C36: when program_tmpdir is pinned and neither retention condition
\* applies, close removes the directory and every file in it, the files that
\* were there before the invocation and are not in its managed set included
C36_PinnedDirRemoved ==
    C36_Case =>
        /\ PinnedDir \notin dirs
        /\ \A f \in AllFiles : ~disk[f].exists
\* a delete found a file of an earlier invocation in the pinned directory that
\* is not in its managed set, and nothing is left when it returns
C36_Witness ==
    /\ C36_Case
    /\ \E f \in AllFiles \ Range(FileNamesRun) : atLaunch[f].exists
    /\ verb = "delete"
    /\ PinnedDir \notin dirs
    /\ \A f \in AllFiles : ~disk[f].exists

\* the command of an update or a create exited with status 0 and left the id
\* file empty, and no filesystem call failed in read-back
C37_Case ==
    /\ Returned
    /\ verb \in {"update", "create"}
    /\ InTrace("exec:wait")
    /\ exit = 0
    /\ atExit["id"].exists
    /\ atExit["id"].content = ""
    /\ \A f \in {"id"} \cup Range(Attributes) : ReadOK(f)
\* C37: a successful update or create that leaves the id file empty ends with
\* an empty id and no error-severity diagnostic, and state, output and
\* output_sensitive are read back from their files all the same
C37_EmptyIdStillReadsBack ==
    C37_Case =>
        /\ data.id = ""
        /\ ~HasError(diags)
        /\ InTrace("storeAttributes")
        /\ \A a \in Range(Attributes) : data[a] = atExit[a].content
\* an update of resource abc whose command emptied the id file and wrote the
\* three attribute files
C37_Witness ==
    /\ C37_Case
    /\ verb = "update"
    /\ pre.id = "abc"
    /\ data.id = ""
    /\ data.state = "new"
    /\ data.output = "out"
    /\ data.output_sensitive = "out-secret"

\* the files whose read-back produced an error-severity diagnostic
FailedReads ==
    {f \in ReadBackFiles :
       \E i \in 1..Len(emitted) :
          /\ emitted[i].sev = "Error"
          /\ emitted[i].tag \in {k \o ":" \o f : k \in {"chmod", "read", "restore"}}}
\* C38: an error in reading back id ends the read-back: storeAttributes does
\* not run and state, output and output_sensitive keep the values the handler
\* was entered with.  An error in reading back one of state, output and
\* output_sensitive leaves that attribute as it was, and the other attributes
\* are still read back and set to what their files held when the command
\* exited.  In both cases the diagnostics returned hold an error
C38_ReadBackErrors ==
    Returned =>
        /\ FailedReads # {} => HasError(diags)
        /\ "id" \in FailedReads =>
              /\ ~InTrace("storeAttributes")
              /\ \A a \in Range(Attributes) : data[a] = pre[a]
        /\ FailedReads \cap Range(Attributes) # {} =>
              /\ InTrace("storeAttributes")
              /\ \A a \in Range(Attributes) :
                    data[a] = IF a \in FailedReads THEN pre[a] ELSE atExit[a].content
\* a read in which reading state back failed: state is as before, output and
\* output_sensitive are those the command wrote
C38_Witness ==
    /\ Returned /\ verb = "read"
    /\ FailedReads = {"state"}
    /\ atExit["state"].content = "new" /\ pre.state = "old" /\ data.state = "old"
    /\ pre.output = "" /\ data.output = "out"
    /\ pre.output_sensitive = "" /\ data.output_sensitive = "out-secret"
    /\ HasError(diags)

====
